---- MODULE Spec2Model ----
(***************************************************************************)
(* Host side of the eDAQS RS485 protocol: the framing of src/comms_mcu/    *)
(* rs485.py (Node), the gateway wrappers of src/comms_mcu/*.py and the     *)
(* single-file driver src/rs485_edaq.py.                                   *)
(*                                                                         *)
(* A text is a sequence of characters and a character is a string token   *)
(* ("v", "/", "\n", and "U+00E9" for a character outside ASCII).  Bytes    *)
(* are integers 0..255.  The serial port is the pair (inbuf, log): the     *)
(* bytes pending at the host, and the operations the host performed on    *)
(* the port during the current call.                                       *)
(***************************************************************************)
EXTENDS Integers, Sequences, FiniteSets, TLC

VARIABLES
    call,      \* the operation the caller is running: [api, id_char, arg]
    ip,        \* position in the call: 0 before any call, else index of the next port operation
    log,       \* port operations of the current call, in order: [op, data]
    inbuf,     \* bytes received by the serial port and not yet read
    owed,      \* the addressed node has received a frame it has not answered yet
    outcome,   \* how the current call ended: [kind, exc, msg, val]
    console,   \* lines printed by the current call
    dev_n_reg,    \* register count of the firmware in the DAQ MCU
    reg_call,     \* the register operation the caller is running: [op, i, val, d]
    reg_pc,       \* position in the register operation
    reg_local,    \* its local variables: [n_reg_actual, k, i, val, txt]
    sent,         \* commands it passed to command_DAQ_MCU, in order: [cmd, i, val, ok]
    reg_outcome,  \* how it ended: [kind, exc, msg, val]
    sram,         \* the recording held by the DAQ MCU: buffer geometry and registers
    fetch_call,   \* the last fetch_SRAM_data call: [driver, gateway, n_select, n_pretrigger]
    meta,         \* what that call computed: its returned dict, its locals, its commands
    unpacked,     \* what unpack_to_samples made of that dict, and the offsets it read
    recorded,     \* what get_recorded_data did on the same recording: [kind, N]
    script,       \* the recording script that is running
    pc,           \* the line of the script that runs next
    daq,          \* the node as a script meets it: [armed, sampling, event_passed, ready, answers]
    seen,         \* what the last status query of the script reported: [event_passed, ready]
    polls,        \* status queries the script has made in its wait loops
    script_out,   \* how the script ended
    trig_call,    \* the last call that arms a comparator trigger, and the bytes
                  \* readline() gave it: [gateway, op, level, slope, line]
    trig_out,     \* how it ended and the command it sent: [kind, exc, msg, cmd]
    bus,          \* a serial port that host-side callers share, and the node behind it:
                  \* [ncalls, users, clears, wire, inbuf]
    callers,      \* the command() call each of them is running:
                  \* [ip, n, cmd, epoch, dropped, line, out]
    wkrj,         \* the two-node calibration script and its two nodes:
                  \* [pc, j, ready, event_passed, nodes, observed, silent, out]
    ads           \* a recording in the ADS131M04 DAQ MCU and the fetch of it:
                  \* [dev, n_pretrigger, result]

\* the serial port and the gateway call
FramingVars == <<call, ip, log, inbuf, owed, outcome, console>>

\* the register file of the DAQ MCU and the call on it
RegFileVars == <<dev_n_reg, reg_call, reg_pc, reg_local, sent, reg_outcome>>

\* the recording in the DAQ MCU and the fetch of it
FetchVars == <<sram, fetch_call, meta, unpacked, recorded>>

\* a recording script, the node it talks to, and a call that arms a trigger
ScriptVars == <<script, pc, daq, seen, polls, script_out, trig_call, trig_out>>

\* a port shared by callers of command()
BusVars == <<bus, callers>>

\* the two-node calibration script; the ADS131M04 recording and its fetch
OtherVars == <<wkrj, ads>>

vars == <<FramingVars, RegFileVars, FetchVars, ScriptVars, BusVars, OtherVars>>

\* what an operation on the serial port leaves alone
NotFraming == <<RegFileVars, FetchVars, ScriptVars, BusVars, OtherVars>>

----------------------------------------------------------------------------
(* Bounds of the model.                                                    *)

MaxPayloadLen == 3
MaxFreeLen == 3

----------------------------------------------------------------------------
(* Characters, bytes and the Python string operations the code uses.       *)

\* code points of the characters that occur in the model
CharTable ==
    { <<"\t", 9>>, <<"\n", 10>>, <<"\r", 13>>, <<" ", 32>>, <<"!", 33>>,
      <<"#", 35>>, <<"/", 47>>, <<"0", 48>>, <<"1", 49>>, <<"2", 50>>,
      <<"4", 52>>, <<"5", 53>>, <<"6", 54>>,
      <<"?", 63>>, <<"E", 69>>, <<"F", 70>>, <<"Q", 81>>, <<"R", 82>>, <<"X", 88>>, <<"^", 94>>,
      <<"d", 100>>, <<"e", 101>>, <<"i", 105>>, <<"k", 107>>, <<"o", 111>>, <<"r", 114>>, <<"t", 116>>, <<"v", 118>>,
      <<"w", 119>>, <<"z", 122>>, <<"U+00E9", 233>> }

Ord(ch) == (CHOOSE p \in CharTable : p[1] = ch)[2]

Chr(n) == (CHOOSE p \in CharTable : p[2] = n)[1]

\* str.encode('utf-8'): one byte below U+0080, two bytes below U+0800
RECURSIVE Utf8Encode(_)
Utf8Encode(txt) ==
    IF txt = <<>> THEN <<>>
    ELSE LET cp == Ord(Head(txt))
         IN  (IF cp < 128 THEN <<cp>>
              ELSE <<192 + (cp \div 64), 128 + (cp % 64)>>)
             \o Utf8Encode(Tail(txt))

\* bytes.decode('utf-8') of well-formed one- and two-byte sequences
RECURSIVE Utf8Decode(_)
Utf8Decode(bs) ==
    IF bs = <<>> THEN <<>>
    ELSE IF bs[1] < 128 THEN <<Chr(bs[1])>> \o Utf8Decode(Tail(bs))
    ELSE <<Chr((bs[1] - 192) * 64 + (bs[2] - 128))>>
         \o Utf8Decode(SubSeq(bs, 3, Len(bs)))

\* the bytes that bytes.strip() removes
WhitespaceBytes == {9, 10, 11, 12, 13, 32}

\* the characters that str.strip() and str.split() treat as whitespace
Whitespace == {" ", "\t", "\n", "\r"}

RECURSIVE LStripOf(_, _)
LStripOf(s, ws) ==
    IF s # <<>> /\ Head(s) \in ws THEN LStripOf(Tail(s), ws) ELSE s

RECURSIVE RStripOf(_, _)
RStripOf(s, ws) ==
    IF s # <<>> /\ s[Len(s)] \in ws THEN RStripOf(SubSeq(s, 1, Len(s) - 1), ws) ELSE s

\* bytes.strip()
StripBytes(bs) == RStripOf(LStripOf(bs, WhitespaceBytes), WhitespaceBytes)

\* str.strip()
Strip(txt) == RStripOf(LStripOf(txt, Whitespace), Whitespace)

\* str.startswith(pre)
StartsWith(txt, pre) ==
    Len(pre) <= Len(txt) /\ SubSeq(txt, 1, Len(pre)) = pre

\* str.find(pat): lowest 0-based index of pat in txt, or -1
Find(txt, pat) ==
    LET hits == { i \in 1..(Len(txt) - Len(pat) + 1) :
                    SubSeq(txt, i, i + Len(pat) - 1) = pat }
    IN  IF hits = {} THEN -1
        ELSE (CHOOSE i \in hits : \A j \in hits : i <= j) - 1

\* re.sub(pat, '', txt) for a literal pattern: every non-overlapping
\* occurrence, found left to right, is removed
RECURSIVE ReSub(_, _)
ReSub(pat, txt) ==
    IF Len(txt) < Len(pat) THEN txt
    ELSE IF SubSeq(txt, 1, Len(pat)) = pat
         THEN ReSub(pat, SubSeq(txt, Len(pat) + 1, Len(txt)))
         ELSE <<Head(txt)>> \o ReSub(pat, Tail(txt))

\* re.sub(pat, '', txt, count=1) for a literal pattern: the first occurrence
ReSubCount1(pat, txt) ==
    LET i == Find(txt, pat)
    IN  IF i < 0 THEN txt
        ELSE SubSeq(txt, 1, i) \o SubSeq(txt, i + Len(pat) + 1, Len(txt))

\* one-character patterns that re.compile rejects, and those that match
\* the empty string at a position instead of a character
RegexInvalid == {"?", "*", "+", "(", ")", "[", "\\"}
RegexEmptyMatch == {"^", "$", "|"}

\* str.split(): the maximal runs of non-whitespace characters
RECURSIVE Split(_)
Split(txt) ==
    LET s == LStripOf(txt, Whitespace)
        n == IF \E i \in 1..Len(s) : s[i] \in Whitespace
             THEN (CHOOSE i \in 1..Len(s) :
                      s[i] \in Whitespace /\ \A j \in 1..(i - 1) : s[j] \notin Whitespace) - 1
             ELSE Len(s)
    IN  IF s = <<>> THEN <<>>
        ELSE <<SubSeq(s, 1, n)>> \o Split(SubSeq(s, n + 1, Len(s)))

\* str.lower() on the letters of the model
LowerChar(ch) ==
    CASE ch = "E" -> "e"
      [] ch = "Q" -> "q"
      [] ch = "X" -> "x"
      [] OTHER -> ch

Lower(txt) == [i \in 1..Len(txt) |-> LowerChar(txt[i])]

----------------------------------------------------------------------------
(* rs485.Node: framing and the command/response exchange.                  *)

\* what a function call produced: a returned value or a raised exception,
\* and the lines it printed
Returned(v, printed) ==
    [kind |-> "return", exc |-> "", msg |-> "", val |-> v, out |-> printed]

Raised(e, m, printed) ==
    [kind |-> "raise", exc |-> e, msg |-> m, val |-> <<>>, out |-> printed]

\* faulty variant of cmd_bytes: the line terminator is left out of the frame
cmd_bytes_NoNewline(id_char, cmd_txt) ==
    Utf8Encode(<<"/", id_char>> \o cmd_txt \o <<"!">>)

\* send_command: cmd_bytes = f'/{self.id_char}{cmd_txt}!\n'.encode('utf-8')
cmd_bytes(id_char, cmd_txt) ==
    Utf8Encode(<<"/", id_char>> \o cmd_txt \o <<"!", "\n">>)

\* faulty variant of send_command_ops: the input buffer is cleared after the write
send_command_ops_WriteFirst == <<"write", "reset_input_buffer", "flush">>

\* send_command: the port operations, in program order
send_command_ops == <<"reset_input_buffer", "write", "flush">>

\* faulty variant of command_ops: the frame is sent a second time before the read
command_ops_SendTwice ==
    <<"reset_input_buffer", "write", "flush",
      "reset_input_buffer", "write", "flush", "readline">>

\* command: send_command(cmd_txt), then get_response()
command_ops == send_command_ops \o <<"readline">>

\* faulty variant of get_response: only the '/' of the master prefix is checked
get_response_SlashOnly(line) ==
    LET txt == Utf8Decode(StripBytes(line))
    IN  IF StartsWith(txt, <<"/">>)
        THEN IF Find(txt, <<"#">>) < 0
             THEN Returned(txt, <<"Incomplete RS485 response">>)
             ELSE Returned(Strip(ReSub(<<"#">>, Strip(ReSub(<<"/", "0">>, txt)))), <<>>)
        ELSE Raised("RuntimeError", "Invalid RS485 response", <<>>)

\* get_response, given the bytes that serial_port.readline() returned
get_response(line) ==
    LET txt == Utf8Decode(StripBytes(line))
    IN  IF StartsWith(txt, <<"/", "0">>)
        THEN IF Find(txt, <<"#">>) < 0
             THEN Returned(txt, <<"Incomplete RS485 response">>)
             ELSE Returned(Strip(ReSub(<<"#">>, Strip(ReSub(<<"/", "0">>, txt)))), <<>>)
        ELSE Raised("RuntimeError", "Invalid RS485 response", <<>>)

\* what command prints about a payload that holds 'error': a warning, the
\* command text and the response text
error_report(cmd_txt, txt) ==
    IF Find(txt, <<"e", "r", "r", "o", "r">>) >= 0
    THEN << "Warning: error return for command to COMMS-MCU.",
            [label |-> "  cmd_txt: ", text |-> cmd_txt],
            [label |-> "  response: ", text |-> txt] >>
    ELSE <<>>

\* faulty variant of command: the echo character is looked for anywhere in the
\* response instead of at its start
command_EchoAnywhere(cmd_txt, line) ==
    LET cmd_char == cmd_txt[1]
        r == get_response(line)
    IN  IF r.kind = "raise" THEN r
        ELSE IF Find(r.val, <<cmd_char>>) < 0
        THEN Raised("RuntimeError", "Unexpected response", r.out)
        ELSE IF cmd_char \in RegexInvalid
        THEN Raised("re.error", "nothing to repeat", r.out)
        ELSE LET txt == Strip(IF cmd_char \in RegexEmptyMatch THEN r.val
                              ELSE ReSubCount1(<<cmd_char>>, r.val))
             IN  Returned(txt, r.out \o error_report(cmd_txt, txt))

\* command, from get_response() on: the echo check, the removal of the
\* echoed command character (cmd_char is used as a regular expression) and
\* the warning about an 'error' payload
command(cmd_txt, line) ==
    LET cmd_char == cmd_txt[1]
        r == get_response(line)
    IN  IF r.kind = "raise" THEN r
        ELSE IF ~StartsWith(r.val, <<cmd_char>>)
        THEN Raised("RuntimeError", "Unexpected response", r.out)
        ELSE IF cmd_char \in RegexInvalid
        THEN Raised("re.error", "nothing to repeat", r.out)
        ELSE LET txt == Strip(IF cmd_char \in RegexEmptyMatch THEN r.val
                              ELSE ReSubCount1(<<cmd_char>>, r.val))
             IN  Returned(txt, r.out \o error_report(cmd_txt, txt))

----------------------------------------------------------------------------
(* Gateway (COMMS-MCU) operations built on command.                        *)

\* PIC18F16Q41_COMMS_1_MCU / PIC18F26Q71_COMMS_3_MCU / EDAQSNode
\* command_DAQ_MCU, from the reply to 'X' + cmd_txt on
command_DAQ_MCU(cmd_txt, line) ==
    LET r == command(<<"X">> \o cmd_txt, line)
    IN  IF r.kind = "raise" THEN r
        ELSE IF Find(r.val, <<"o", "k">>) >= 0
        THEN Returned(Strip(ReSubCount1(<<"o", "k">>, r.val)), r.out)
        ELSE Raised("RuntimeError", "DAQ_MCU response not ok", r.out)

\* faulty variant of JM_ADS131M04_command_DAQ_MCU: no fallback, a reply that does
\* not echo the inner command always raises
JM_ADS131M04_command_DAQ_MCU_Strict(cmd_txt, line) ==
    LET r == command(<<"X">> \o cmd_txt, line)
        t == Strip(r.val)
    IN  IF r.kind = "raise" THEN r
        ELSE IF Len(cmd_txt) > 0 /\ Len(t) > 0 /\ t[1] = cmd_txt[1]
        THEN Returned(Strip(Tail(t)), r.out)
        ELSE Raised("RuntimeError", "DAQ_MCU error", r.out)

\* PIC18F16Q41_JM_ADS131M04_COMMS.command_DAQ_MCU
JM_ADS131M04_command_DAQ_MCU(cmd_txt, line) ==
    LET r == command(<<"X">> \o cmd_txt, line)
        t == Strip(r.val)
    IN  IF r.kind = "raise" THEN r
        ELSE IF Len(cmd_txt) > 0 /\ Len(t) > 0 /\ t[1] = cmd_txt[1]
        THEN Returned(Strip(Tail(t)), r.out)
        ELSE IF Find(Lower(t), <<"e", "r", "r", "o", "r">>) >= 0
        THEN Raised("RuntimeError", "DAQ_MCU error", r.out)
        ELSE Returned(t, r.out)

\* event_txt, ready_txt = txt.split(): exactly two fields, or ValueError
test_DAQ_MCU_is_ready(line) ==
    LET r == command(<<"Q">>, line)
        fields == Split(r.val)
    IN  IF r.kind = "raise" THEN r
        ELSE IF Len(fields) # 2
        THEN Raised("ValueError", "unpack", r.out)
        ELSE Returned(fields[2] = <<"1">>, r.out)

\* faulty variant of test_event_has_passed: the event field is read as active-high
test_event_has_passed_ActiveHigh(line) ==
    LET r == command(<<"Q">>, line)
        fields == Split(r.val)
    IN  IF r.kind = "raise" THEN r
        ELSE IF Len(fields) # 2
        THEN Raised("ValueError", "unpack", r.out)
        ELSE Returned(fields[1] = <<"1">>, r.out)

test_event_has_passed(line) ==
    LET r == command(<<"Q">>, line)
        fields == Split(r.val)
    IN  IF r.kind = "raise" THEN r
        ELSE IF Len(fields) # 2
        THEN Raised("ValueError", "unpack", r.out)
        ELSE Returned(fields[1] = <<"0">>, r.out)

----------------------------------------------------------------------------
(* The caller's inputs and the lines the bus can deliver.                  *)

\* all texts over alphabet A of length at most n
TextsUpTo(A, n) == UNION { [1..k -> A] : k \in 0..n }

NodeIds == {"2", "E"}

\* command texts given to command(): a command character and its arguments
CommandTexts == { <<"v">>, <<"/">>, <<"^">>, <<"?">>, <<"w", "U+00E9">> }

\* inner command texts given to command_DAQ_MCU()
InnerTexts == { <<"v">>, <<>> }

Apis == {"command", "command_DAQ_MCU", "JM_ADS131M04_command_DAQ_MCU",
         "test_DAQ_MCU_is_ready", "test_event_has_passed"}

Calls ==
    { c \in [api : Apis, id_char : NodeIds, arg : CommandTexts \cup InnerTexts] :
        \/ c.api = "command" /\ c.arg \in CommandTexts
        \/ c.api \in {"command_DAQ_MCU", "JM_ADS131M04_command_DAQ_MCU"} /\ c.arg \in InnerTexts
        \/ c.api \in {"test_DAQ_MCU_is_ready", "test_event_has_passed"} /\ c.arg = <<>> }

\* the command text that the call hands to command()
WireCommand(c) ==
    CASE c.api = "command" -> c.arg
      [] c.api \in {"command_DAQ_MCU", "JM_ADS131M04_command_DAQ_MCU"} -> <<"X">> \o c.arg
      [] OTHER -> <<"Q">>

PayloadAlphabet == {"/", "0", "#", " ", "v"}

NamedPayloads ==
    { <<"o", "k">>, <<"o", "k", " ", "1">>, <<"1", " ", "o", "k">>,
      <<"e", "r", "r", "o", "r">>, <<"E", "r", "r", "o", "r">>,
      <<"v", " ", "e", "r", "r", "o", "r">>, <<"U+00E9">>,
      <<"0", " ", "1">>, <<"1", " ", "0">>, <<"1", " ", "1">>, <<"1">>,
      <<"0", " ", "1", " ", "1">> }

Payloads == TextsUpTo(PayloadAlphabet, MaxPayloadLen) \cup NamedPayloads

\* lines with the master prefix: an echo character (the right one or not),
\* a payload, and the terminator or not
FramedLines(c) ==
    { <<"/", "0", e>> \o p \o t :
        e \in {WireCommand(c)[1], "w"}, p \in Payloads, t \in {<<>>, <<"#">>} }

\* any short line at all, with leading or trailing blanks, or the end of
\* line as "\r\n"
FreeLines ==
    TextsUpTo(PayloadAlphabet, MaxFreeLen) \cup { <<"/", "0", "v", "#", "\r">> }

ReplyLines(c) == FramedLines(c) \cup FreeLines

\* serial_port.readline(): the bytes up to and including the first "\n",
\* or after the timeout whatever has arrived
ReadLine(buf) ==
    IF \E i \in 1..Len(buf) : buf[i] = 10
    THEN SubSeq(buf, 1, CHOOSE i \in 1..Len(buf) :
                           buf[i] = 10 /\ \A j \in 1..(i - 1) : buf[j] # 10)
    ELSE buf

----------------------------------------------------------------------------
(* The state machine: one caller, one serial port, one addressed node.     *)

NoOutcome == [kind |-> "none", exc |-> "", msg |-> "", val |-> <<>>]

Idle == ip = 0 \/ ip > Len(command_ops)

\* the register table compiled into the host: self.n_reg, self.reg_labels
n_reg == 5

\* no register operation has been called; the firmware matches the table
RegFileInit ==
    /\ dev_n_reg = n_reg
    /\ reg_call = [op |-> "get_reg", i |-> 0, val |-> 0, d |-> <<>>]
    /\ reg_pc = "idle"
    /\ reg_local = [n_reg_actual |-> 0, k |-> 0, i |-> 0, val |-> 0, txt |-> <<>>]
    /\ sent = <<>>
    /\ reg_outcome = NoOutcome

\* the port is open and no operation has been called
FramingInit ==
    /\ call = [api |-> "command", id_char |-> "2", arg |-> <<"v">>]
    /\ ip = 0
    /\ log = <<>>
    /\ inbuf = <<>>
    /\ owed = FALSE
    /\ outcome = NoOutcome
    /\ console = <<>>

\* the 32-byte page of the SRAM
page_size == 32

\* fetch_SRAM_data(n_select=None, n_pretrigger=None): an argument is None
\* or <<n>> for the integer n
None == <<>>

\* nothing fetched yet
NoMeta ==
    [kind |-> "none", exc |-> "", total_bytes |-> 0, total_pages |-> 0,
     bytes_per_sample_set |-> 0, byte_addr_of_oldest_data |-> 0,
     total_samples |-> 0, nsamples_after_trigger |-> 0,
     nsamples_before_trigger |-> 0, trigger_sample_index |-> 0,
     nsamples_select |-> 0, nsamples_select_pretrigger |-> 0,
     first_sample_index |-> 0, samples_per_page |-> 0,
     first_sample_byte_addr |-> 0, first_page_index |-> 0,
     n_pages_to_get |-> 0, page_addrs |-> <<>>,
     trigger_mode |-> "", nchan |-> 0, dt_us |-> 0, late_flag |-> FALSE,
     analog_gain |-> 0, ref_voltage |-> 0]

\* get_recorded_data not called
NoRecorded == [kind |-> "none", N |-> 0]

\* nothing unpacked yet
NoSamples ==
    [kind |-> "none", nchan |-> 0, nsamples_select |-> 0,
     nsamples_select_pretrigger |-> 0, trigger_mode |-> "", dt_us |-> 0,
     late_flag |-> FALSE, analog_gain |-> 0, ref_voltage |-> 0,
     addrs |-> <<>>]

\* registers 0, 7, 8, 9 and the 'k' flag after set_sample_period_us(100),
\* clear_PGA() and set_analog_ref_voltage('4v096'); millivolts is the analog
\* supply a gateway measures
PlainSettings ==
    [ticks |-> 125, late |-> 0, pga_flag |-> 0, pga_gain |-> 0, ref_sel |-> 3,
     millivolts |-> 3300]

\* channels of a sample set of bps bytes: two bytes each, at most 12
nchan_of(bps) == IF bps \div 2 > 12 THEN 12 ELSE bps \div 2

\* a recording of the buffer geometry pages x bps bytes per sample set
Recording(pages, bps, oldest, nsamples, mode) ==
    [total_bytes |-> page_size * pages, total_pages |-> pages,
     bytes_per_sample_set |-> bps, byte_addr_of_oldest_data |-> oldest,
     max_nsamples |-> (page_size * pages) \div bps,
     NSAMPLES |-> nsamples, TRIG_MODE |-> mode,
     nchan |-> nchan_of(bps), settings |-> PlainSettings]

\* one page of two sample sets, recorded in IMMEDIATE mode; nothing fetched
FetchInit ==
    /\ sram = Recording(1, 16, 0, 2, 0)
    /\ fetch_call = [driver |-> "avr64ea28", gateway |-> "PIC18F16Q41_COMMS_1_MCU",
                     n_select |-> None, n_pretrigger |-> None]
    /\ meta = NoMeta
    /\ unpacked = NoSamples
    /\ recorded = NoRecorded

\* a status reply not yet received
NoStatus == [event_passed |-> FALSE, ready |-> FALSE]

\* the node before a script arms it: not sampling, the event line released,
\* the DAQ MCU ready, the node answering
QuietNode ==
    [armed |-> FALSE, sampling |-> FALSE, event_passed |-> FALSE,
     ready |-> TRUE, answers |-> TRUE]

\* no call that arms a trigger being made
NoTrigCall ==
    [gateway |-> "PIC18F26Q71_COMMS_3_MCU", op |-> "enable_external_trigger",
     level |-> 0, slope |-> [text |-> "", num |-> 0], line |-> <<>>]

\* how a gateway operation ended: kind, exc and msg of the outcome, the
\* command it sent, the text command() gave it and the lines printed
TrigOut(kind, exc, msg, cmd, r) ==
    [kind |-> kind, exc |-> exc, msg |-> msg, cmd |-> cmd, txt |-> r.val, out |-> r.out]

NoTrigOut == TrigOut("none", "", "", <<>>, [val |-> <<>>, out |-> <<>>])

\* no script running, no trigger call made
ScriptInit ==
    /\ script = "" /\ pc = 0 /\ daq = QuietNode /\ seen = NoStatus
    /\ polls = 0 /\ script_out = ""
    /\ trig_call = NoTrigCall
    /\ trig_out = NoTrigOut

\* a caller that is not inside command()
NoBusCall ==
    [ip |-> 0, n |-> 0, cmd |-> <<>>, epoch |-> 0, dropped |-> {},
     line |-> [for |-> 0, by |-> 0, cmd |-> <<>>, epoch |-> 0],
     out |-> [kind |-> "none", exc |-> "", val |-> <<>>]]

\* the port just opened: nothing sent, nothing received, no caller in a call
BusInit ==
    /\ bus = [ncalls |-> 0, users |-> {}, clears |-> 0, wire |-> <<>>, inbuf |-> <<>>]
    /\ callers = [p \in {1, 2} |-> NoBusCall]

\* the two-node script not running: both DAQ MCUs configured and ready, no
\* status reply seen
WkrjIdle ==
    [pc |-> 0, j |-> 0, ready |-> FALSE, event_passed |-> FALSE,
     nodes |-> [n \in {0, 1} |-> [sampling |-> FALSE, ready |-> TRUE]],
     observed |-> [n \in {0, 1} |-> FALSE], silent |-> {}, out |-> ""]

\* an ADS131M04 DAQ MCU that holds no recording, and no fetch made
NoAds ==
    [dev |-> [mode |-> 0, num_samples |-> 0, trigger_index |-> 0,
              oldest_index |-> 0, nstored |-> 0],
     n_pretrigger |-> <<>>,
     result |-> [kind |-> "none"]]

OtherInit == wkrj = WkrjIdle /\ ads = NoAds

Init == FramingInit /\ RegFileInit /\ FetchInit /\ ScriptInit /\ BusInit /\ OtherInit

\* the caller starts an operation; a node that has not answered the
\* previous frame by now is taken never to answer it
Call(c) ==
    /\ Idle
    /\ call' = c
    /\ ip' = 1
    /\ log' = <<>>
    /\ owed' = FALSE
    /\ outcome' = NoOutcome
    /\ console' = <<>>
    /\ UNCHANGED inbuf
    /\ UNCHANGED NotFraming

\* self.serial_port.reset_input_buffer()
ResetInputBuffer ==
    /\ ~Idle /\ command_ops[ip] = "reset_input_buffer"
    /\ inbuf' = <<>>
    /\ log' = Append(log, [op |-> "reset_input_buffer", data |-> <<>>])
    /\ ip' = ip + 1
    /\ UNCHANGED <<call, owed, outcome, console>>
    /\ UNCHANGED NotFraming

\* self.serial_port.write(cmd_bytes)
Write ==
    /\ ~Idle /\ command_ops[ip] = "write"
    /\ log' = Append(log, [op |-> "write",
                           data |-> cmd_bytes(call.id_char, WireCommand(call))])
    /\ owed' = TRUE
    /\ ip' = ip + 1
    /\ UNCHANGED <<call, inbuf, outcome, console>>
    /\ UNCHANGED NotFraming

\* self.serial_port.flush()
Flush ==
    /\ ~Idle /\ command_ops[ip] = "flush"
    /\ log' = Append(log, [op |-> "flush", data |-> <<>>])
    /\ ip' = ip + 1
    /\ UNCHANGED <<call, inbuf, owed, outcome, console>>
    /\ UNCHANGED NotFraming

\* the rest of the operation, from the bytes readline() returned
ApiOutcome(c, line) ==
    CASE c.api = "command" -> command(c.arg, line)
      [] c.api = "command_DAQ_MCU" -> command_DAQ_MCU(c.arg, line)
      [] c.api = "JM_ADS131M04_command_DAQ_MCU" -> JM_ADS131M04_command_DAQ_MCU(c.arg, line)
      [] c.api = "test_DAQ_MCU_is_ready" -> test_DAQ_MCU_is_ready(line)
      [] OTHER -> test_event_has_passed(line)

\* self.serial_port.readline() and everything the operation does with the
\* line; an exception ends the operation
Readline ==
    /\ ~Idle /\ command_ops[ip] = "readline"
    /\ LET line == ReadLine(inbuf)
           r == ApiOutcome(call, line)
       IN  /\ inbuf' = SubSeq(inbuf, Len(line) + 1, Len(inbuf))
           /\ log' = Append(log, [op |-> "readline", data |-> line])
           /\ outcome' = [kind |-> r.kind, exc |-> r.exc, msg |-> r.msg, val |-> r.val]
           /\ console' = r.out
           /\ ip' = IF r.kind = "raise" THEN Len(command_ops) + 1 ELSE ip + 1
    /\ UNCHANGED <<call, owed>>
    /\ UNCHANGED NotFraming

\* the bus delivers a line: the node's answer to the frame, in time for
\* readline() or after its timeout
DeviceReply ==
    /\ owed /\ inbuf = <<>>
    /\ \E l \in ReplyLines(call) : inbuf' = Utf8Encode(l \o <<"\n">>)
    /\ owed' = FALSE
    /\ UNCHANGED <<call, ip, log, outcome, console>>
    /\ UNCHANGED NotFraming

Next ==
    \/ \E c \in Calls : Call(c)
    \/ ResetInputBuffer
    \/ Write
    \/ Flush
    \/ Readline
    \/ DeviceReply

Spec == Init /\ [][Next]_vars

----------------------------------------------------------------------------
(* What the properties below read from a state.                            *)

\* the current call has ended (returned or raised)
Done == ip > Len(command_ops)

\* the frames written to the port by the current call
Writes == SelectSeq(log, LAMBDA e : e.op = "write")

\* the call has read a line
HasRead == \E i \in 1..Len(log) : log[i].op = "readline"

\* the bytes readline() returned to the current call
RxBytes == (CHOOSE i \in 1..Len(log) : log[i].op = "readline")
RxLine == log[RxBytes].data

\* the line as text, without its surrounding whitespace and line end
RxText == Strip(Utf8Decode(RxLine))

\* the text between the master prefix and the terminator of a complete frame
Framed(txt) == SubSeq(txt, 3, Len(txt) - 1)

IsFrame(txt) ==
    Len(txt) >= 3 /\ SubSeq(txt, 1, 2) = <<"/", "0">> /\ txt[Len(txt)] = "#"

----------------------------------------------------------------------------
(* C1: Framing round trip.  When the line delivered is '/0' + c[0] + p +    *)
(* '#', command(c) returns exactly p with its surrounding whitespace        *)
(* trimmed, whatever characters p holds ('/0', '#', c[0] again).            *)
C1_FramingRoundTrip ==
    (Done /\ call.api = "command" /\ IsFrame(RxText)
          /\ Len(RxText) >= 4 /\ RxText[3] = call.arg[1])
        => /\ outcome.kind = "return"
           /\ outcome.val = Strip(SubSeq(RxText, 4, Len(RxText) - 1))

(* C2: Echo mismatch.  When the unwrapped response (what get_response      *)
(* hands to command) begins with a character other than c[0], command(c)   *)
(* raises RuntimeError 'Unexpected response' and returns no payload.       *)
C2_EchoMismatchFaults ==
    (Done /\ call.api = "command" /\ get_response(RxLine).kind = "return"
          /\ get_response(RxLine).val # <<>>
          /\ get_response(RxLine).val[1] # call.arg[1])
        => /\ outcome.kind = "raise"
           /\ outcome.exc = "RuntimeError"
           /\ outcome.msg = "Unexpected response"
           /\ outcome.val = <<>>

\* a complete frame answers command('v') with the echo of another command
C2_Witness ==
    /\ Done /\ call.api = "command" /\ call.arg = <<"v">>
    /\ RxText = <<"/", "0", "w", "v", "#">>
    /\ outcome.kind = "raise" /\ outcome.msg = "Unexpected response"

(* C3: Command frame encoding.  Every write hands the port exactly the     *)
(* UTF-8 bytes of '/' + n + t + '!' + '\n', and a call writes once.        *)
C3_CommandFrameEncoding ==
    /\ Len(Writes) <= 1
    /\ \A i \in 1..Len(Writes) :
         LET data == Writes[i].data
             t == WireCommand(call)
         IN  /\ Utf8Decode(data) = <<"/", call.id_char>> \o t \o <<"!", "\n">>
             /\ data[1] = 47 /\ data[Len(data) - 1] = 33 /\ data[Len(data)] = 10
             /\ (call.id_char = "2" /\ t = <<"v">>) => data = <<47, 50, 118, 33, 10>>
             /\ (call.id_char = "E" /\ t = <<"X", "v">>) => data = <<47, 69, 88, 118, 33, 10>>
             /\ (call.id_char = "E" /\ t = <<"w", "U+00E9">>)
                    => data = <<47, 69, 119, 195, 169, 33, 10>>

\* a frame whose command text holds a character outside ASCII was written
C3_Witness ==
    /\ Len(Writes) = 1
    /\ call.id_char = "E" /\ call.arg = <<"w", "U+00E9">>
    /\ Writes[1].data = <<47, 69, 119, 195, 169, 33, 10>>

(* C4: Exchange ordering.  Within a call the port operations occur in the  *)
(* order discard-pending-input, write, flush, read-line, and a new         *)
(* exchange starts only after the read of the previous one: there is never *)
(* more than one command in flight.                                        *)
ExchangeOrder == <<"reset_input_buffer", "write", "flush", "readline">>

C4_ExchangeOrdering ==
    /\ [](/\ Len(log) <= Len(ExchangeOrder)
          /\ \A i \in 1..Len(log) : log[i].op = ExchangeOrder[i])
    /\ [][ log' # log =>
             \/ /\ log' = <<>>
                /\ log[Len(log)].op = "readline"
             \/ /\ Len(log') = Len(log) + 1
                /\ SubSeq(log', 1, Len(log)) = log ]_vars

\* a complete exchange: the four operations, the frame and the line read
C4_Witness ==
    /\ Done /\ Len(log) = 4
    /\ log[2].data # <<>> /\ log[4].data # <<>>
    /\ outcome.kind = "return"

C6_MissingTerminatorFaults ==
    (Done /\ call.api = "command"
          /\ Len(RxText) >= 2 /\ RxText[1] = "/" /\ RxText[2] = "0"
          /\ \A i \in 1..Len(RxText) : RxText[i] # "#")
        => /\ console # <<>> /\ console[1] = "Incomplete RS485 response"
           /\ outcome.kind = "raise"
           /\ Len(Writes) = 1

(* C7: No automatic retry.  Every call, whether it returns or faults, has  *)
(* written exactly one command frame.                                      *)
C7_NoAutomaticRetry ==
    /\ Len(Writes) <= 1
    /\ Done => Len(Writes) = 1

\* a pass-through call that faulted on a reply without 'ok'
C7_Witness ==
    /\ Done /\ call.api = "command_DAQ_MCU"
    /\ outcome.kind = "raise" /\ outcome.msg = "DAQ_MCU response not ok"
    /\ Len(Writes) = 1

(* C8: Pass-through confirmation, 'ok' variants.  command_DAQ_MCU(inner)   *)
(* returns normally only if the unwrapped reply begins with 'ok', and then *)
(* returns the reply without that marker; every other reply raises         *)
(* RuntimeError 'DAQ_MCU response not ok'.                                 *)
C8_OkConfirmation ==
    LET r == command(<<"X">> \o call.arg, RxLine)
    IN  (Done /\ call.api = "command_DAQ_MCU" /\ r.kind = "return")
            => IF Len(r.val) >= 2 /\ r.val[1] = "o" /\ r.val[2] = "k"
               THEN /\ outcome.kind = "return"
                    /\ outcome.val = Strip(SubSeq(r.val, 3, Len(r.val)))
               ELSE /\ outcome.kind = "raise"
                    /\ outcome.msg = "DAQ_MCU response not ok"

HoldsError(txt) ==
    \E i \in 1..(Len(txt) - 4) :
        /\ txt[i] \in {"e", "E"} /\ txt[i + 1] \in {"r", "R"} /\ txt[i + 2] \in {"r", "R"}
        /\ txt[i + 3] \in {"o", "O"} /\ txt[i + 4] \in {"r", "R"}

C10_StatusQuery ==
    LET r == command(<<"Q">>, RxLine)
        two == /\ IsFrame(RxText) /\ Len(RxText) = 7
               /\ RxText[3] = "Q" /\ RxText[5] = " "
               /\ RxText[4] \in {"0", "1"} /\ RxText[6] \in {"0", "1"}
    IN  /\ (Done /\ call.api = "test_DAQ_MCU_is_ready" /\ r.kind = "return"
                 /\ Len(Split(r.val)) = 2)
            => outcome.kind = "return" /\ outcome.val = (Split(r.val)[2] = <<"1">>)
        /\ (Done /\ call.api = "test_event_has_passed" /\ r.kind = "return"
                 /\ Len(Split(r.val)) = 2)
            => outcome.kind = "return" /\ outcome.val = (Split(r.val)[1] = <<"0">>)
        /\ (Done /\ call.api = "test_DAQ_MCU_is_ready" /\ two)
            => outcome.kind = "return" /\ outcome.val = (RxText[6] = "1")
        /\ (Done /\ call.api = "test_event_has_passed" /\ two)
            => outcome.kind = "return" /\ outcome.val = (RxText[4] = "0")

\* the event has not passed although the DAQ MCU is ready
C10_Witness ==
    /\ Done /\ call.api = "test_event_has_passed"
    /\ RxText = <<"/", "0", "Q", "1", " ", "1", "#">>
    /\ outcome.kind = "return" /\ outcome.val = FALSE

----------------------------------------------------------------------------
(* The register file of the DAQ MCU: get_reg, set_reg, set_regs_from_dict  *)
(* and get_reg_values_as_text of src/daq_mcu/*.py.  A step is one call of  *)
(* comms_MCU.command_DAQ_MCU and the host code that follows it, up to the  *)
(* next such call.  command_DAQ_MCU returns the text of the DAQ MCU or     *)
(* raises RuntimeError, as modelled above.                                 *)

MaxCountSkew == 1
MaxRegValue == 1
MaxDictLen == 2

\* register counts a firmware revision may report for 'n'
FirmwareCounts == (n_reg - MaxCountSkew)..(n_reg + MaxCountSkew)

\* register indices a caller passes
RegIndices == {0} \cup ((n_reg - MaxCountSkew - 1)..(n_reg + MaxCountSkew))

RegValues == 0..MaxRegValue

\* the keys of self.reg_labels
reg_labels == 0..(n_reg - 1)

\* a dict is the sequence of its items <<i, val>> in iteration order
Dicts ==
    { d \in UNION { [1..k -> RegIndices \X RegValues] : k \in 0..MaxDictLen } :
        \A a, b \in DOMAIN d : a # b => d[a][1] # d[b][1] }

RegCalls ==
    { [op |-> "get_reg", i |-> i, val |-> 0, d |-> <<>>] : i \in RegIndices }
    \cup { [op |-> "set_reg", i |-> i, val |-> v, d |-> <<>>] :
             i \in RegIndices, v \in RegValues }
    \cup { [op |-> "set_regs_from_dict", i |-> 0, val |-> 0, d |-> d] : d \in Dicts }
    \cup { [op |-> "get_reg_values_as_text", i |-> 0, val |-> 0, d |-> <<>>] }

\* if i >= n_reg_actual: raise RuntimeError, with > in place of >=
RangeFault_OffByOne(i, n_reg_actual) == i > n_reg_actual

\* if i >= n_reg_actual: raise RuntimeError
RangeFault(i, n_reg_actual) == i >= n_reg_actual

RangeError == [kind |-> "raise", exc |-> "RuntimeError", msg |-> "n_reg_actual", val |-> <<>>]

GatewayError ==
    [kind |-> "raise", exc |-> "RuntimeError", msg |-> "DAQ_MCU response not ok", val |-> <<>>]

LabelError == [kind |-> "raise", exc |-> "KeyError", msg |-> "reg_labels", val |-> <<>>]

\* what the code does next: end with an outcome, or call get_reg/set_reg
ThenEnd(o, k) == [kind |-> "end", outcome |-> o, k |-> k, i |-> 0, val |-> 0]

ThenCall(k, i, val) == [kind |-> "call", outcome |-> NoOutcome, k |-> k, i |-> i, val |-> val]

RegReturned(v) == [kind |-> "return", exc |-> "", msg |-> "", val |-> v]

\* for i in d.keys(): val = d[i], the k-th item in iteration order
ItemAt(d, k) == d[k]

\* set_regs_from_dict, the loop from item k of d up to the call of set_reg
set_regs_from_dict_item(d, k, n_reg_actual) ==
    IF k > Len(d) THEN ThenEnd(RegReturned(<<>>), k)
    ELSE LET i == ItemAt(d, k)[1]
             val == ItemAt(d, k)[2]
         IN  IF RangeFault(i, n_reg_actual) THEN ThenEnd(RangeError, k)
             ELSE IF i \notin reg_labels THEN ThenEnd(LabelError, k)
             ELSE ThenCall(k, i, val)

\* get_reg_values_as_text, for i in range(n_reg_actual): up to the call of get_reg
get_reg_values_as_text_item(i, n_reg_actual, txt) ==
    IF i >= n_reg_actual THEN ThenEnd(RegReturned(txt), i)
    ELSE ThenCall(i, i, 0)

\* the operation goes on as e says
Proceed(e, loc) ==
    IF e.kind = "end"
    THEN /\ reg_outcome' = e.outcome
         /\ reg_pc' = "done"
         /\ reg_local' = [loc EXCEPT !.k = e.k]
    ELSE /\ reg_outcome' = NoOutcome
         /\ reg_pc' = "n"
         /\ reg_local' = [loc EXCEPT !.k = e.k, !.i = e.i, !.val = e.val]

RegIdle == reg_pc = "idle"

\* the caller starts a register operation
RegCall ==
    /\ RegIdle
    /\ \E c \in RegCalls :
         /\ reg_call' = c
         /\ reg_pc' = IF c.op \in {"get_reg", "set_reg"} THEN "n" ELSE "outer_n"
         /\ reg_local' = [n_reg_actual |-> 0, k |-> 0, i |-> c.i, val |-> c.val,
                          txt |-> <<>>]
    /\ sent' = <<>>
    /\ reg_outcome' = NoOutcome
    /\ UNCHANGED <<dev_n_reg, FramingVars, FetchVars, ScriptVars, BusVars, OtherVars>>

\* n_reg_actual = self.get_n_reg_actual() of set_regs_from_dict and of
\* get_reg_values_as_text, and the loop up to its first get_reg/set_reg
OuterCount ==
    /\ reg_pc = "outer_n"
    /\ \E ok \in BOOLEAN :
         /\ sent' = Append(sent, [cmd |-> "n", i |-> 0, val |-> 0, ok |-> ok])
         /\ IF ~ok THEN Proceed(ThenEnd(GatewayError, 0), reg_local)
            ELSE LET loc == [reg_local EXCEPT !.n_reg_actual = dev_n_reg]
                 IN  IF reg_call.op = "set_regs_from_dict"
                     THEN Proceed(set_regs_from_dict_item(reg_call.d, 1, dev_n_reg), loc)
                     ELSE Proceed(get_reg_values_as_text_item(0, dev_n_reg, <<>>), loc)
    /\ UNCHANGED <<dev_n_reg, reg_call, FramingVars, FetchVars, ScriptVars, BusVars, OtherVars>>

\* n_reg_actual = self.get_n_reg_actual() of get_reg and of set_reg, and
\* their range check
InnerCount ==
    /\ reg_pc = "n"
    /\ \E ok \in BOOLEAN :
         /\ sent' = Append(sent, [cmd |-> "n", i |-> 0, val |-> 0, ok |-> ok])
         /\ IF ~ok THEN Proceed(ThenEnd(GatewayError, reg_local.k), reg_local)
            ELSE IF RangeFault(reg_local.i, dev_n_reg)
            THEN Proceed(ThenEnd(RangeError, reg_local.k), reg_local)
            ELSE /\ reg_pc' = "rs"
                 /\ UNCHANGED <<reg_local, reg_outcome>>
    /\ UNCHANGED <<dev_n_reg, reg_call, FramingVars, FetchVars, ScriptVars, BusVars, OtherVars>>

\* self.comms_MCU.command_DAQ_MCU(f'r {i}') of get_reg or
\* self.comms_MCU.command_DAQ_MCU(f's {i} {val}') of set_reg, and the code
\* that follows it up to the next command
RegisterCommand ==
    /\ reg_pc = "rs"
    /\ \E ok \in BOOLEAN, v \in RegValues :
         LET setting == reg_call.op \in {"set_reg", "set_regs_from_dict"}
             reported == IF setting THEN reg_local.val ELSE v
         IN  /\ (setting \/ ~ok) => v = 0
             /\ sent' = Append(sent, [cmd |-> IF setting THEN "s" ELSE "r",
                                      i |-> reg_local.i,
                                      val |-> IF setting THEN reg_local.val ELSE 0,
                                      ok |-> ok])
             /\ IF ~ok THEN Proceed(ThenEnd(GatewayError, reg_local.k), reg_local)
                ELSE IF reg_call.op \in {"get_reg", "set_reg"}
                THEN Proceed(ThenEnd(RegReturned(<<reported>>), 0), reg_local)
                ELSE IF reg_call.op = "set_regs_from_dict"
                THEN Proceed(set_regs_from_dict_item(reg_call.d, reg_local.k + 1,
                                                     reg_local.n_reg_actual), reg_local)
                ELSE IF reg_local.i \notin reg_labels
                THEN Proceed(ThenEnd(LabelError, reg_local.k), reg_local)
                ELSE LET loc == [reg_local EXCEPT !.txt = @ \o <<reg_local.i, reported>>]
                     IN  Proceed(get_reg_values_as_text_item(reg_local.k + 1,
                                     reg_local.n_reg_actual, loc.txt), loc)
    /\ UNCHANGED <<dev_n_reg, reg_call, FramingVars, FetchVars, ScriptVars, BusVars, OtherVars>>

\* the caller has taken the result (or the exception) of the operation
RegReturn ==
    /\ reg_pc = "done"
    /\ reg_call' = [op |-> "get_reg", i |-> 0, val |-> 0, d |-> <<>>]
    /\ reg_pc' = "idle"
    /\ reg_local' = [n_reg_actual |-> 0, k |-> 0, i |-> 0, val |-> 0, txt |-> <<>>]
    /\ sent' = <<>>
    /\ reg_outcome' = NoOutcome
    /\ UNCHANGED <<dev_n_reg, FramingVars, FetchVars, ScriptVars, BusVars, OtherVars>>

\* between two operations the DAQ MCU is programmed with another firmware
\* revision
Reflash(n) ==
    /\ RegIdle
    /\ n # dev_n_reg
    /\ dev_n_reg' = n
    /\ UNCHANGED <<reg_call, reg_pc, reg_local, sent, reg_outcome, FramingVars, FetchVars, ScriptVars, BusVars, OtherVars>>

RegNext ==
    \/ RegCall
    \/ OuterCount
    \/ InnerCount
    \/ RegisterCommand
    \/ RegReturn
    \/ \E n \in FirmwareCounts : Reflash(n)

RegSpec == Init /\ [][RegNext]_vars

----------------------------------------------------------------------------
(* What the register-file properties read from a state.                    *)

RegDone == reg_pc = "done"

\* the register commands ('r' or 's') the current call has sent
RegisterCommands == SelectSeq(sent, LAMBDA e : e.cmd \in {"r", "s"})

\* the current call is a get_reg or a set_reg of the caller
SingleRegisterCall == reg_pc # "idle" /\ reg_call.op \in {"get_reg", "set_reg"}

\* the command get_reg(i) / set_reg(i, val) sends once i has passed the check
ExpectedCommand ==
    IF reg_call.op = "get_reg"
    THEN [cmd |-> "r", i |-> reg_call.i, val |-> 0]
    ELSE [cmd |-> "s", i |-> reg_call.i, val |-> reg_call.val]

\* C11: get_reg(i) and set_reg(i, v) send 'n' before anything else, in the
\* same call; with the count the firmware reports at that moment, i >= count
\* ends the call with RuntimeError and no 'r'/'s' command, and i < count
\* makes the call send exactly one 'r i' / 's i v' command.
C11_RangeFaultFreshCount ==
    SingleRegisterCall =>
        /\ sent # <<>> => sent[1].cmd = "n"
        /\ Len(sent) <= 2
        /\ Len(RegisterCommands) = Len(sent) - (IF sent = <<>> THEN 0 ELSE 1)
        /\ (sent # <<>> /\ sent[1].ok /\ reg_call.i >= dev_n_reg) =>
              /\ RegDone
              /\ reg_outcome = RangeError
              /\ RegisterCommands = <<>>
        /\ (sent # <<>> /\ sent[1].ok /\ reg_call.i < dev_n_reg) =>
              /\ reg_outcome # RangeError
              /\ RegDone =>
                   /\ Len(RegisterCommands) = 1
                   /\ [cmd |-> sent[2].cmd, i |-> sent[2].i, val |-> sent[2].val]
                        = ExpectedCommand
        /\ (sent # <<>> /\ ~sent[1].ok) => RegDone /\ RegisterCommands = <<>>

\* set_reg(i, v) with i equal to the count of a firmware that has fewer
\* registers than the host's table: the call has ended with the range fault
C11_Witness ==
    /\ RegDone
    /\ reg_call.op = "set_reg"
    /\ dev_n_reg < n_reg
    /\ reg_call.i = dev_n_reg
    /\ reg_outcome = RangeError
    /\ Len(sent) = 1 /\ sent[1].ok

\* C12: when the firmware reports a register count other than the host's
\* n_reg, a register operation that obtained the count ends with a fault.
C12_CountMismatchFaults ==
    (RegDone /\ sent # <<>> /\ sent[1].ok /\ dev_n_reg # n_reg) =>
        reg_outcome.kind = "raise"

\* the items of d the current set_regs_from_dict has written, in order
Written ==
    [j \in 1..Len(RegisterCommands) |->
        <<RegisterCommands[j].i, RegisterCommands[j].val>>]

\* the first item of d whose index is out of range, 0 if there is none
FirstOutOfRange(d) ==
    IF \E k \in 1..Len(d) : d[k][1] >= dev_n_reg
    THEN CHOOSE k \in 1..Len(d) :
            /\ d[k][1] >= dev_n_reg
            /\ \A j \in 1..(k - 1) : d[j][1] < dev_n_reg
    ELSE 0

\* C13: set_regs_from_dict(d), the gateway answering every command: the
\* 's i v' commands sent are the items of d in order, each preceded by a
\* count query; if item k is the first out of range the call raises
\* RuntimeError with exactly the k-1 earlier items written, and if no item
\* is out of range all items are written.
C13_BulkRegisterSet ==
    (reg_pc # "idle" /\ reg_call.op = "set_regs_from_dict"
        /\ \A p \in 1..Len(sent) : sent[p].ok) =>
        LET d == reg_call.d
            k == FirstOutOfRange(d)
        IN  /\ Len(Written) <= Len(d)
            /\ Written = SubSeq(d, 1, Len(Written))
            /\ \A p \in 1..Len(sent) :
                   sent[p].cmd = "s" => p > 1 /\ sent[p - 1].cmd = "n"
            /\ RegDone =>
                 IF k > 0
                 THEN /\ reg_outcome = RangeError
                      /\ Len(Written) = k - 1
                 ELSE /\ reg_outcome.kind = "return"
                      /\ Len(Written) = Len(d)

----------------------------------------------------------------------------
(* fetch_SRAM_data and unpack_to_samples of src/daq_mcu/avr64ea28_daq_mcu  *)
(* .py, src/daq_mcu/pico2_daq_mcu_bu79100g.py and src/rs485_edaq.py, as    *)
(* functions of the values the DAQ MCU reports and of the caller's request. *)

MaxPages == 2

\* bytes of one sample set: the sizes that fit neatly into the pages
SampleSetSizes == {16, 32}

\* the most sample sets a buffer of the model holds
MaxStored == (page_size * MaxPages) \div 16

\* trigger_modes_int_to_sym of each driver
TriggerModes(driver) == IF driver = "pico2" THEN 0..1 ELSE 0..2

Drivers == {"avr64ea28", "pico2", "rs485_edaq"}

\* what the DAQ MCU may hold after a recording; the NSAMPLES register may
\* exceed what the buffer stores
Recordings ==
    { Recording(pages, bps, bps * o, n, mode) :
        pages \in 1..MaxPages, bps \in SampleSetSizes,
        o \in 0..(MaxStored - 1), n \in 0..(MaxStored + 1), mode \in 0..2 }

\* registers 0, 7, 8, 9 and the 'k' flag as set_sample_period_us, set_PGA,
\* clear_PGA and set_analog_ref_voltage leave them
Settings ==
    [ticks : {1, 125}, late : {0, 1}, pga_flag : {0, 1}, pga_gain : {0, 3},
     ref_sel : {0, 3}, millivolts : {3300}]

\* a larger recording: 3200 bytes of two-channel sample sets, the oldest one
\* at byte 1600, 200 sample sets taken after the event of a wait-for-event
\* mode
Example == Recording(100, 4, 1600, 200, 1)

\* the recordings of the model: the oldest data lies inside the buffer, on a
\* sample-set boundary
Devices ==
    { r \in Recordings :
        /\ r.byte_addr_of_oldest_data < r.total_bytes
        /\ r.NSAMPLES \in {0, 1, 2, r.max_nsamples, r.max_nsamples + 1} }
    \cup {Example}
    \cup { [Recording(1, 16, 0, 2, 0) EXCEPT !.settings = st] : st \in Settings }

\* n_select and n_pretrigger of a call on the recording dev: None, a count
\* from -1 to 2, all that dev stores, one more, or a count far below zero; on the
\* larger recording the counts of fetch_SRAM_data(n_select=50, n_pretrigger=10)
Requests(dev) ==
    IF dev = Example THEN {<<10>>, <<50>>}
    ELSE {None, <<-(dev.max_nsamples + 1)>>, <<dev.max_nsamples>>,
          <<dev.max_nsamples + 1>>}
            \cup { <<n>> : n \in (-1)..2 }

\* faulty variant of min: the first argument, whatever the second
min_First(a, b) == a

min(a, b) == IF a <= b THEN a ELSE b

\* lines 509-517 with total_samples = max_nsamples in IMMEDIATE mode too
trigger_layout_daq_mcu_Capacity(dev) ==
    IF dev.TRIG_MODE = 0
    THEN [total_samples |-> dev.max_nsamples, nsamples_before_trigger |-> 0]
    ELSE [total_samples |-> dev.max_nsamples,
          nsamples_before_trigger |-> dev.max_nsamples - dev.NSAMPLES]

\* daq_mcu drivers: if trigger_mode == 0: ... else: ...
trigger_layout_daq_mcu(dev) ==
    IF dev.TRIG_MODE = 0
    THEN [total_samples |-> dev.NSAMPLES, nsamples_before_trigger |-> 0]
    ELSE [total_samples |-> dev.max_nsamples,
          nsamples_before_trigger |-> dev.max_nsamples - dev.NSAMPLES]

\* rs485_edaq.py: total_samples = self.get_AVR_max_nsamples(), in every mode
trigger_layout_rs485_edaq(dev) ==
    [total_samples |-> dev.max_nsamples,
     nsamples_before_trigger |-> dev.max_nsamples - dev.NSAMPLES]

\* if n is None: n = limit; n = min(n, limit), with 0 taken as None
select_FalsyDefault(n, limit) ==
    IF n = None THEN limit ELSE IF n[1] = 0 THEN limit ELSE min(n[1], limit)

\* if n is None: n = limit; n = min(n, limit)
select(n, limit) == min(IF n = None THEN limit ELSE n[1], limit)

\* line 541 alone, without the wrap of line 542
first_sample_byte_addr_NoWrap(oldest, bps, first_sample_index, total_bytes) ==
    oldest + bps * first_sample_index

\* first_sample_byte_addr = byte_addr_of_oldest_data + bytes_per_sample_set * first_sample_index
\* if first_sample_byte_addr > total_bytes: first_sample_byte_addr -= total_bytes
first_sample_byte_addr(oldest, bps, first_sample_index, total_bytes) ==
    LET addr == oldest + bps * first_sample_index
    IN  IF addr > total_bytes THEN addr - total_bytes ELSE addr

\* addr = (i+first_page_index) * 32; if addr >= total_bytes: addr -= total_bytes
page_addr(i, first_page_index, total_bytes) ==
    LET addr == (i + first_page_index) * page_size
    IN  IF addr >= total_bytes THEN addr - total_bytes ELSE addr

\* get_recorded_data: N = nsamples_after_trigger if mode==0 else max_samples
get_recorded_data_N(dev) == IF dev.TRIG_MODE = 0 THEN dev.NSAMPLES ELSE dev.max_nsamples

trigger_layout(driver, dev) ==
    IF driver = "rs485_edaq" THEN trigger_layout_rs485_edaq(dev)
    ELSE trigger_layout_daq_mcu(dev)

\* the gateway objects a driver is built on: the classes of src/comms_mcu
\* and of rs485_edaq.py that the scripts use, and for the Pico2 also a
\* gateway object that offers analog_millivolts()
Gateways(driver) ==
    IF driver = "pico2" THEN {"PIC18F26Q71_COMMS_3_MCU", "with analog_millivolts"}
    ELSE IF driver = "avr64ea28" THEN {"PIC18F16Q41_COMMS_1_MCU"}
    ELSE {"EDAQSNode"}

\* the 16-bit value the DAQ MCU stored in word w of its SRAM: an
\* incrementing pattern of both signs with no 0 in it
stored_word(w) == 2 * w - 3

\* the byte at address a of the SRAM: the values are stored high byte first
sram_byte(a) ==
    LET u == stored_word(a \div 2) % 65536
    IN  IF a % 2 = 0 THEN u \div 256 ELSE u % 256

\* the reply to 'M addr': 32 bytes as hexadecimal text, two digits a byte
\* (here and below, appending the empty sequence makes TLC build the
\* sequence once instead of recomputing an element at every use)
page_hex(addr) ==
    [k \in 1..(2 * page_size) |->
        LET b == sram_byte(addr + ((k - 1) \div 2))
        IN  IF k % 2 = 1 THEN b \div 16 ELSE b % 16] \o <<>>

\* bytearray.fromhex(txt)
fromhex(txt) ==
    [j \in 1..(Len(txt) \div 2) |-> 16 * txt[2 * j - 1] + txt[2 * j]] \o <<>>

\* get_page_of_bytes(addr)
get_page_of_bytes(addr) == fromhex(page_hex(addr))

\* the pages stored one after the other from the start of _ba, in the
\* order they were read (faulty variant)
local_bytes_Packed(total_bytes, addrs) ==
    [a1 \in 1..total_bytes |->
        LET i == ((a1 - 1) \div page_size) + 1
        IN  IF i > Len(addrs) THEN 0
            ELSE get_page_of_bytes(addrs[i])[((a1 - 1) % page_size) + 1]]

\* _ba after the page loop: bytearray(total_bytes), then for each page read
\* for j in range(32): _ba[addr+j] = bpage[j]
local_bytes(total_bytes, addrs) ==
    LET bpage == [i \in 1..Len(addrs) |-> get_page_of_bytes(addrs[i])] \o <<>>
    IN  [a1 \in 1..total_bytes |->
            LET hits == { i \in 1..Len(addrs) :
                            addrs[i] <= a1 - 1 /\ a1 - 1 < addrs[i] + page_size }
            IN  IF hits = {} THEN 0
                ELSE LET i == CHOOSE h \in hits : \A g \in hits : g <= h
                     IN  bpage[i][a1 - addrs[i]]] \o <<>>

\* a command passed to command_DAQ_MCU
DaqCmd(c, a) == [cmd |-> c, arg |-> a]

\* get_reg(i): the count query, then the read
get_reg_cmds(i) == <<DaqCmd("n", 0), DaqCmd("r", i)>>

\* the queries of fetch_SRAM_data before its page loop, the trigger mode
\* not among them
metadata_queries_NoMode(driver, dev) ==
    <<DaqCmd("a", 0), DaqCmd("T", 0), DaqCmd("N", 0), DaqCmd("b", 0)>>
        \o get_reg_cmds(1) \o get_reg_cmds(2) \o <<DaqCmd("m", 0)>>

\* the queries of fetch_SRAM_data before its page loop
metadata_queries(driver, dev) ==
    <<DaqCmd("a", 0), DaqCmd("T", 0), DaqCmd("N", 0), DaqCmd("b", 0)>>
        \o get_reg_cmds(1) \o get_reg_cmds(2)
        \o (IF driver = "rs485_edaq" THEN <<DaqCmd("m", 0)>>
            ELSE get_reg_cmds(3)
                   \o (IF dev.TRIG_MODE = 0 THEN <<>> ELSE <<DaqCmd("m", 0)>>))

\* the queries behind 'Other metadata to include with the bytearray'
other_metadata_queries(driver, dev) ==
    get_reg_cmds(3) \o get_reg_cmds(0) \o <<DaqCmd("k", 0)>>
        \o (IF driver = "pico2" THEN <<>>
            ELSE get_reg_cmds(7)
                   \o (IF dev.settings.pga_flag = 1 THEN get_reg_cmds(8) ELSE <<>>)
                   \o get_reg_cmds(9))

\* trigger_modes_int_to_sym[mode]
trigger_modes_int_to_sym(driver, mode) ==
    IF mode = 0 THEN "IMMEDIATE"
    ELSE IF driver = "pico2" THEN "WAIT_FOR_EVENTn"
    ELSE IF mode = 1 THEN "INTERNAL" ELSE "EXTERNAL"

\* get_sample_period_us(), in tenths of a microsecond: register 0 times
\* us_per_tick = 0.8 on the AVR, register 0 itself on the Pico2
get_sample_period_us(driver, dev) ==
    IF driver = "pico2" THEN 10 * dev.settings.ticks ELSE 8 * dev.settings.ticks

\* get_analog_gain(); 1.0 on the Pico2
get_analog_gain(driver, dev) ==
    IF driver = "pico2" \/ dev.settings.pga_flag = 0 THEN 1
    ELSE <<1, 2, 4, 8, 16>>[dev.settings.pga_gain + 1]

\* ref_voltage in millivolts: ref_voltages_int_to_value[register 9] on the
\* AVR, analog_millivolts()/1000 Volts on the Pico2
get_analog_ref_voltage(driver, dev) ==
    IF driver = "pico2" THEN dev.settings.millivolts
    ELSE <<4750, 1024, 2048, 4096, 2500>>[dev.settings.ref_sel + 1]

\* fetch_SRAM_data: the dict it returns and the locals it prints; the page
\* loop ends with IndexError at a page outside _ba, the Pico2 driver with
\* AttributeError on a gateway that has no analog_millivolts. The bytes of
\* 'data' follow from the pages read (fetched_bytes)
fetch_SRAM_data(driver, gateway, dev, n_select_arg, n_pretrigger_arg) ==
    LET total_bytes == dev.total_bytes
        bytes_per_sample_set == dev.bytes_per_sample_set
        layout == trigger_layout(driver, dev)
        total_samples == layout.total_samples
        nsamples_before_trigger == layout.nsamples_before_trigger
        trigger_sample_index == nsamples_before_trigger
        n_select == select(n_select_arg, total_samples)
        n_pretrigger == select(n_pretrigger_arg, nsamples_before_trigger)
        samples_per_page == page_size \div bytes_per_sample_set
        first_sample_index == trigger_sample_index - n_pretrigger
        addr0 == first_sample_byte_addr(dev.byte_addr_of_oldest_data,
                     bytes_per_sample_set, first_sample_index, total_bytes)
        first_page_index == addr0 \div page_size
        n_pages == (n_select \div samples_per_page)
                       + (IF addr0 % page_size # 0 THEN 1 ELSE 0)
        n_pages_to_get == min(n_pages, dev.total_pages)
        addrs == [i \in 1..n_pages_to_get |->
                     page_addr(i - 1, first_page_index, total_bytes)]
        bad == { i \in 1..n_pages_to_get : addrs[i] >= total_bytes }
        last == IF bad = {} THEN n_pages_to_get
                ELSE CHOOSE i \in bad : \A j \in bad : i <= j
        read == SubSeq(addrs, 1, last)
        exc == IF bad # {} THEN "IndexError"
               ELSE IF driver = "pico2" /\ gateway # "with analog_millivolts"
                    THEN "AttributeError"
               ELSE ""
    IN  [kind |-> IF exc = "" THEN "return" ELSE "raise", exc |-> exc,
         total_bytes |-> total_bytes, total_pages |-> dev.total_pages,
         bytes_per_sample_set |-> bytes_per_sample_set,
         byte_addr_of_oldest_data |-> dev.byte_addr_of_oldest_data,
         total_samples |-> total_samples,
         nsamples_after_trigger |-> dev.NSAMPLES,
         nsamples_before_trigger |-> nsamples_before_trigger,
         trigger_sample_index |-> trigger_sample_index,
         nsamples_select |-> n_select,
         nsamples_select_pretrigger |-> n_pretrigger,
         first_sample_index |-> first_sample_index,
         samples_per_page |-> samples_per_page,
         first_sample_byte_addr |-> addr0,
         first_page_index |-> first_page_index,
         n_pages_to_get |-> n_pages_to_get,
         page_addrs |-> read,
         trigger_mode |-> IF exc = "" THEN trigger_modes_int_to_sym(driver, dev.TRIG_MODE)
                          ELSE "",
         nchan |-> dev.nchan,
         dt_us |-> IF exc = "" THEN get_sample_period_us(driver, dev) ELSE 0,
         late_flag |-> exc = "" /\ dev.settings.late = 1,
         analog_gain |-> IF exc = "" THEN get_analog_gain(driver, dev) ELSE 0,
         ref_voltage |-> IF exc = "" THEN get_analog_ref_voltage(driver, dev) ELSE 0]

\* 'data' of the dict d that fetch_SRAM_data returned: _ba
fetched_bytes(d) == local_bytes(d.total_bytes, d.page_addrs)

\* the commands the call that computed d passed to command_DAQ_MCU, in
\* order: the queries, one 'M addr' for each page, the other metadata
fetch_commands(driver, dev, d) ==
    metadata_queries(driver, dev)
        \o [i \in 1..Len(d.page_addrs) |-> DaqCmd("M", d.page_addrs[i])]
        \o (IF d.exc = "IndexError" THEN <<>> ELSE other_metadata_queries(driver, dev))

\* if addr >= nbytes: addr -= nbytes (avr64ea28, rs485_edaq);
\* while addr >= nbytes: addr -= nbytes (pico2)
unpack_wrap(driver, addr, nbytes) ==
    IF addr < nbytes THEN addr
    ELSE IF driver = "pico2" THEN addr % nbytes
    ELSE addr - nbytes

\* addr = byte_addr_of_oldest_data + bpss * (i + first_sample_index), wrapped
unpack_addr(driver, oldest, bpss, index, nbytes) ==
    unpack_wrap(driver, oldest + bpss * index, nbytes)

\* what struct '>h' makes of two bytes, read low byte first (faulty variant)
int16_from_LittleEndian(hi, lo) ==
    LET u == 256 * lo + hi IN IF u >= 32768 THEN u - 65536 ELSE u

\* what struct '>h' makes of two bytes: a signed value, high byte first
int16_from(hi, lo) ==
    LET u == 256 * hi + lo IN IF u >= 32768 THEN u - 65536 ELSE u

\* unpack_to_samples(data): the dict it returns and the offset of each
\* s.unpack_from, in order; unpack_from raises struct.error when the nchan
\* values do not lie inside data['data']. The values of '_samples' follow
\* from the offsets (unpacked_samples)
unpack_to_samples(driver, data) ==
    LET addrs == [i \in 1..data.nsamples_select |->
                    unpack_addr(driver, data.byte_addr_of_oldest_data,
                                data.bytes_per_sample_set,
                                (i - 1) + data.first_sample_index, data.total_bytes)]
        bad == { i \in 1..data.nsamples_select :
                    addrs[i] + 2 * data.nchan > data.total_bytes }
        last == IF bad = {} THEN Len(addrs)
                ELSE CHOOSE i \in bad : \A j \in bad : i <= j
    IN  [kind |-> IF bad = {} THEN "return" ELSE "raise",
         nchan |-> data.nchan,
         nsamples_select |-> data.nsamples_select,
         nsamples_select_pretrigger |-> data.nsamples_select_pretrigger,
         trigger_mode |-> data.trigger_mode,
         dt_us |-> data.dt_us,
         late_flag |-> data.late_flag,
         analog_gain |-> data.analog_gain,
         ref_voltage |-> data.ref_voltage,
         addrs |-> SubSeq(addrs, 1, last)]

\* 'data' of the dict unpack_to_samples returned for the fetched dict d:
\* _samples[j][i], the j-th value of s.unpack_from at the i-th offset
unpacked_samples(d, addrs) ==
    LET ba == fetched_bytes(d)
    IN  [j \in 1..d.nchan |->
            [i \in 1..Len(addrs) |->
                int16_from(ba[addrs[i] + 2 * (j - 1) + 1],
                           ba[addrs[i] + 2 * (j - 1) + 2])]]

\* my_data = daq_mcu.fetch_SRAM_data(n_select, n_pretrigger) on the
\* recording the DAQ MCU holds
Fetch ==
    /\ meta.kind = "none"
    /\ \E driver \in Drivers, n_select \in Requests(sram), n_pretrigger \in Requests(sram) :
         \E gateway \in Gateways(driver) :
            /\ sram.TRIG_MODE \in TriggerModes(driver)
            /\ fetch_call' = [driver |-> driver, gateway |-> gateway,
                              n_select |-> n_select, n_pretrigger |-> n_pretrigger]
            /\ meta' = fetch_SRAM_data(driver, gateway, sram, n_select, n_pretrigger)
    /\ unpacked' = NoSamples
    /\ UNCHANGED <<sram, recorded, FramingVars, RegFileVars, ScriptVars, BusVars, OtherVars>>

\* a call of unpack_to_samples on the dict fetch_SRAM_data returned
Unpack ==
    /\ meta.kind = "return" /\ unpacked.kind = "none"
    /\ unpacked' = unpack_to_samples(fetch_call.driver, meta)
    /\ UNCHANGED <<sram, fetch_call, meta, recorded, FramingVars, RegFileVars, ScriptVars, BusVars, OtherVars>>

\* the caller is done with my_data
Discard ==
    /\ meta.kind # "none"
    /\ fetch_call' = [driver |-> "avr64ea28", gateway |-> "PIC18F16Q41_COMMS_1_MCU",
                      n_select |-> None, n_pretrigger |-> None]
    /\ meta' = NoMeta
    /\ unpacked' = NoSamples
    /\ recorded' = NoRecorded
    /\ UNCHANGED <<sram, FramingVars, RegFileVars, ScriptVars, BusVars, OtherVars>>

\* the DAQ MCU is configured and makes another recording
Record(dev) ==
    /\ meta.kind = "none"
    /\ sram' = dev
    /\ UNCHANGED <<fetch_call, meta, unpacked, recorded, FramingVars, RegFileVars, ScriptVars,
                   BusVars, OtherVars>>

\* the reply to 'P i' as get_formatted_sample reads it: the nchan values
\* of the sample set at byte (oldest + bytes_per_sample_set * i) mod
\* total_bytes of the buffer
get_formatted_sample(dev, i) ==
    LET a == (dev.byte_addr_of_oldest_data + dev.bytes_per_sample_set * i) % dev.total_bytes
    IN  [j \in 1..dev.nchan |->
            int16_from(sram_byte(a + 2 * (j - 1)), sram_byte(a + 2 * (j - 1) + 1))]

\* get_recorded_data(): N from the registers, then 'P i' for i in range(N)
get_recorded_data(dev) == [kind |-> "return", N |-> get_recorded_data_N(dev)]

\* the commands get_recorded_data passed to command_DAQ_MCU for its samples
get_recorded_data_cmds(r) == [i \in 1..r.N |-> DaqCmd("P", i - 1)]

\* _data of get_recorded_data: _data[j][i], value j of the reply to 'P i'
recorded_samples(dev, r) ==
    [j \in 1..dev.nchan |-> [i \in 1..r.N |-> get_formatted_sample(dev, i - 1)[j]]]

\* the caller that fetched the whole recording with the default selection
\* reads it a second time with get_recorded_data
GetRecordedData ==
    /\ recorded.kind = "none"
    /\ meta.kind # "none" /\ fetch_call.n_select = None /\ fetch_call.n_pretrigger = None
    /\ meta.kind = "return" => unpacked.kind # "none"
    /\ recorded' = get_recorded_data(sram)
    /\ UNCHANGED <<sram, fetch_call, meta, unpacked, FramingVars, RegFileVars, ScriptVars,
                   BusVars, OtherVars>>

FetchNext ==
    \/ Fetch
    \/ Unpack
    \/ GetRecordedData
    \/ Discard
    \/ \E dev \in Devices : Record(dev)

FetchSpec == Init /\ [][FetchNext]_vars

----------------------------------------------------------------------------
(* What the fetch properties read from a state.                            *)

\* fetch_SRAM_data of a driver in src/daq_mcu has returned its dict
FetchedByDaqMcu == meta.kind = "return" /\ fetch_call.driver \in {"avr64ea28", "pico2"}

\* the caller asked for None or for a count that is not negative, and the
\* NSAMPLES register does not exceed what the buffer stores
PlainRequest ==
    /\ fetch_call.n_select = None \/ fetch_call.n_select[1] >= 0
    /\ fetch_call.n_pretrigger = None \/ fetch_call.n_pretrigger[1] >= 0
    /\ sram.NSAMPLES <= sram.max_nsamples

\* C14: in the daq_mcu drivers, IMMEDIATE mode gives nsamples_before_trigger
\* = 0 and total_samples = NSAMPLES whatever the capacity; any other mode
\* gives total_samples = the maximum storable count and
\* nsamples_before_trigger = total_samples - nsamples_after_trigger; in both
\* trigger_sample_index = nsamples_before_trigger.
C14_TriggerModeDerivation ==
    FetchedByDaqMcu =>
        /\ meta.nsamples_after_trigger = sram.NSAMPLES
        /\ IF sram.TRIG_MODE = 0
           THEN /\ meta.nsamples_before_trigger = 0
                /\ meta.total_samples = sram.NSAMPLES
           ELSE /\ meta.total_samples = sram.max_nsamples
                /\ meta.nsamples_before_trigger
                     = meta.total_samples - meta.nsamples_after_trigger
        /\ meta.trigger_sample_index = meta.nsamples_before_trigger

\* an IMMEDIATE recording of fewer sample sets than the buffer stores
C14_Witness ==
    /\ FetchedByDaqMcu
    /\ sram.TRIG_MODE = 0
    /\ 0 < sram.NSAMPLES /\ sram.NSAMPLES < sram.max_nsamples
    /\ meta.total_samples = sram.NSAMPLES
    /\ meta.nsamples_before_trigger = 0

\* C15: fetch_SRAM_data of rs485_edaq.AVR64EA28_DAQ_MCU in IMMEDIATE mode
\* reports nsamples_before_trigger = 0 and total_samples = NSAMPLES, the
\* number of sample sets get_recorded_data of the same class returns.
C15_ImmediateModeSingleFile ==
    (meta.kind = "return" /\ fetch_call.driver = "rs485_edaq" /\ sram.TRIG_MODE = 0) =>
        /\ meta.nsamples_before_trigger = 0
        /\ meta.total_samples = sram.NSAMPLES
        /\ meta.total_samples = get_recorded_data_N(sram)

\* C16: whatever the request and the device metadata, the reported
\* nsamples_select_pretrigger lies in 0..nsamples_before_trigger and the
\* reported nsamples_select in 0..total_samples.
C16_SelectionBounds ==
    FetchedByDaqMcu =>
        /\ 0 <= meta.nsamples_select_pretrigger
        /\ meta.nsamples_select_pretrigger <= meta.nsamples_before_trigger
        /\ 0 <= meta.nsamples_select
        /\ meta.nsamples_select <= meta.total_samples

\* C17: a request above its limit yields the limit (total_samples for
\* n_select, nsamples_before_trigger for n_pretrigger), None yields the
\* limit, a request in 0..limit is kept, and n_pretrigger = 0 puts
\* first_sample_index at trigger_sample_index.
C17_SelectionClamping ==
    meta.kind = "return" =>
        LET ns == fetch_call.n_select
            np == fetch_call.n_pretrigger
        IN  /\ ns = None => meta.nsamples_select = meta.total_samples
            /\ (ns # None /\ ns[1] > meta.total_samples) =>
                   meta.nsamples_select = meta.total_samples
            /\ (ns # None /\ 0 <= ns[1] /\ ns[1] <= meta.total_samples) =>
                   meta.nsamples_select = ns[1]
            /\ np = None => meta.nsamples_select_pretrigger = meta.nsamples_before_trigger
            /\ (np # None /\ np[1] > meta.nsamples_before_trigger) =>
                   meta.nsamples_select_pretrigger = meta.nsamples_before_trigger
            /\ (np # None /\ 0 <= np[1] /\ np[1] <= meta.nsamples_before_trigger) =>
                   meta.nsamples_select_pretrigger = np[1]
            /\ (np = <<0>> /\ 0 <= meta.nsamples_before_trigger) =>
                   meta.first_sample_index = meta.trigger_sample_index

\* n_select above total_samples and n_pretrigger = 0 on a recording that
\* holds samples before the trigger
C17_Witness ==
    /\ meta.kind = "return"
    /\ fetch_call.driver = "avr64ea28"
    /\ fetch_call.n_pretrigger = <<0>>
    /\ meta.nsamples_before_trigger > 0
    /\ meta.nsamples_select_pretrigger = 0
    /\ meta.first_sample_index = meta.trigger_sample_index
    /\ fetch_call.n_select # None
    /\ fetch_call.n_select[1] > meta.total_samples
    /\ meta.nsamples_select = meta.total_samples

\* C18: first_sample_index + n_select <= total_samples, so that the
\* selection does not run past the newest stored sample.
C18_SelectionWithinStored ==
    (FetchedByDaqMcu /\ PlainRequest) =>
        meta.first_sample_index + meta.nsamples_select <= meta.total_samples

\* C19: for an oldest-data address in [0, total_bytes) and a
\* first_sample_index in [0, total_samples), first_sample_byte_addr is
\* (byte_addr_of_oldest_data + bytes_per_sample_set * first_sample_index)
\* mod total_bytes, inside [0, total_bytes), and first_page_index is inside
\* [0, total_pages).
C19_FirstSampleAddress ==
    (FetchedByDaqMcu /\ PlainRequest
        /\ 0 <= meta.first_sample_index /\ meta.first_sample_index < meta.total_samples) =>
        /\ meta.first_sample_byte_addr
             = (meta.byte_addr_of_oldest_data
                  + meta.bytes_per_sample_set * meta.first_sample_index) % meta.total_bytes
        /\ 0 <= meta.first_sample_byte_addr
        /\ meta.first_sample_byte_addr < meta.total_bytes
        /\ meta.first_page_index = meta.first_sample_byte_addr \div page_size
        /\ 0 <= meta.first_page_index
        /\ meta.first_page_index < meta.total_pages

\* C20: for every sample index k, the addresses computed for k and for
\* k + total_samples are equal modulo total_bytes and, after the wrap step,
\* the same address inside [0, total_bytes): for the first-sample address of
\* fetch_SRAM_data and for the per-sample address of unpack_to_samples.
C20_WraparoundIdempotence ==
    (FetchedByDaqMcu /\ PlainRequest) =>
        \A k \in 0..(meta.total_samples - 1) :
            LET oldest == meta.byte_addr_of_oldest_data
                bps == meta.bytes_per_sample_set
                nbytes == meta.total_bytes
                f1 == first_sample_byte_addr(oldest, bps, k, nbytes)
                f2 == first_sample_byte_addr(oldest, bps, k + meta.total_samples, nbytes)
                u1 == unpack_addr(fetch_call.driver, oldest, bps, k, nbytes)
                u2 == unpack_addr(fetch_call.driver, oldest, bps,
                                  k + meta.total_samples, nbytes)
            IN  /\ (oldest + bps * k) % nbytes
                     = (oldest + bps * (k + meta.total_samples)) % nbytes
                /\ f1 = f2 /\ 0 <= f1 /\ f1 < nbytes
                /\ u1 = u2 /\ 0 <= u1 /\ u1 < nbytes

\* the quotient rounded up, for a positive divisor
ceil_div(a, b) == (a + b - 1) \div b

\* C21: n_pages_to_get is ceil(n_select / samples_per_page), plus 1 when
\* first_sample_byte_addr is not a multiple of 32, capped at total_pages,
\* with samples_per_page = 32 div bytes_per_sample_set.
C21_PageCount ==
    (FetchedByDaqMcu /\ PlainRequest) =>
        /\ meta.samples_per_page = page_size \div meta.bytes_per_sample_set
        /\ meta.n_pages_to_get
             = min(ceil_div(meta.nsamples_select, meta.samples_per_page)
                     + (IF meta.first_sample_byte_addr % page_size # 0 THEN 1 ELSE 0),
                   meta.total_pages)

\* fetch_SRAM_data(n_select=50, n_pretrigger=10) of a daq_mcu driver has
\* returned on the larger recording
ExampleFetched ==
    /\ FetchedByDaqMcu
    /\ sram = Example
    /\ fetch_call.n_select = <<50>> /\ fetch_call.n_pretrigger = <<10>>

\* what the worked example gives up to the first-sample index
ExampleSelection ==
    /\ meta.total_bytes = 3200 /\ meta.bytes_per_sample_set = 4
    /\ meta.byte_addr_of_oldest_data = 1600 /\ meta.nsamples_after_trigger = 200
    /\ meta.total_samples = 800
    /\ meta.nsamples_before_trigger = 600
    /\ meta.first_sample_index = 590
    /\ meta.samples_per_page = 8

FullBuffer ==
    /\ FetchedByDaqMcu
    /\ unpacked.kind # "none"
    /\ meta.first_sample_index = 0
    /\ meta.nsamples_select = meta.total_samples
    /\ meta.total_samples = sram.max_nsamples

RanByDaqMcu == meta.kind # "none" /\ fetch_call.driver \in {"avr64ea28", "pico2"}

\* every 'M addr' of the call carries ((first_page_index + i) * 32) mod
\* total_bytes, a multiple of 32 from 0 to total_bytes - 32
PageReadsWrapped ==
    \A i \in 1..Len(meta.page_addrs) :
        /\ meta.page_addrs[i]
             = ((meta.first_page_index + (i - 1)) * page_size) % meta.total_bytes
        /\ meta.page_addrs[i] % page_size = 0
        /\ 0 <= meta.page_addrs[i]
        /\ meta.page_addrs[i] <= meta.total_bytes - page_size

\* C24: every page-read command 'M addr' that fetch_SRAM_data issues has
\* addr = ((first_page_index + i) * 32) mod total_bytes, a multiple of 32
\* with 0 <= addr <= total_bytes - 32, for every i below n_pages_to_get and
\* every first_page_index the call can reach.
C24_PageReadAddresses ==
    RanByDaqMcu =>
        /\ PageReadsWrapped
        /\ Len(meta.page_addrs) = IF meta.n_pages_to_get > 0 THEN meta.n_pages_to_get ELSE 0

\* C25: the byte buffer fetch_SRAM_data returns has exactly total_bytes
\* bytes; for every page address a that was read, local bytes a .. a+31 are
\* the 32 bytes the device holds at a; every byte outside the pages read
\* has its initial value 0.
C25_LocalMirror ==
    (FetchedByDaqMcu /\ unpacked.kind = "none") =>
        LET ba == fetched_bytes(meta)
            read == { meta.page_addrs[i] : i \in 1..Len(meta.page_addrs) }
        IN  /\ Len(ba) = sram.total_bytes
            /\ \A p \in read, k \in 0..(page_size - 1) : ba[p + k + 1] = sram_byte(p + k)
            /\ \A a \in 0..(sram.total_bytes - 1) :
                  (\A p \in read : a < p \/ a >= p + page_size) => ba[a + 1] = 0

\* one page of a two-page buffer was read, the second one, and the first
\* was left alone
C25_Witness ==
    /\ FetchedByDaqMcu /\ unpacked.kind = "none"
    /\ sram.total_pages > 1
    /\ meta.page_addrs = <<page_size>>
    /\ fetched_bytes(meta)[page_size + 2] = sram_byte(page_size + 1)
    /\ fetched_bytes(meta)[page_size + 2] # 0
    /\ fetched_bytes(meta)[1] = 0

\* unpack_to_samples has run on the dict a daq_mcu driver returned
UnpackedByDaqMcu == FetchedByDaqMcu /\ unpacked.kind # "none"

\* C26: unpack_to_samples returns nchan sequences of length nsamples_select;
\* element i is decoded at addr_i = (byte_addr_of_oldest_data +
\* bytes_per_sample_set * (first_sample_index + i)) mod total_bytes, and
\* 0 <= addr_i and addr_i + bytes_per_sample_set <= total_bytes for every i.
C26_UnpackAddresses ==
    UnpackedByDaqMcu =>
        /\ unpacked.kind = "return"
        /\ Len(unpacked.addrs) = meta.nsamples_select
        /\ \A i \in 1..Len(unpacked.addrs) :
              /\ unpacked.addrs[i]
                   = (meta.byte_addr_of_oldest_data + meta.bytes_per_sample_set
                        * (meta.first_sample_index + (i - 1))) % meta.total_bytes
              /\ 0 <= unpacked.addrs[i]
              /\ unpacked.addrs[i] + meta.bytes_per_sample_set <= meta.total_bytes
        /\ LET samples == unpacked_samples(meta, unpacked.addrs)
           IN  /\ Len(samples) = unpacked.nchan
               /\ \A j \in 1..Len(samples) : Len(samples[j]) = meta.nsamples_select

\* the commands of a call up to its first page read (all of them when no
\* page was read)
BeforeFirstPageRead(cmds) ==
    LET reads == { k \in 1..Len(cmds) : cmds[k].cmd = "M" }
    IN  IF reads = {} THEN cmds
        ELSE SubSeq(cmds, 1, (CHOOSE k \in reads : \A m \in reads : k <= m) - 1)

\* C27: each call of fetch_SRAM_data queries the oldest-data address, total
\* bytes, total pages, bytes per sample set, channel count, post-trigger
\* sample count and trigger mode before its first page read, and the
\* dictionary it returns is determined by what the device holds at the call
\* and by the arguments alone.
C27_FreshMetadata ==
    RanByDaqMcu =>
        LET before == BeforeFirstPageRead(fetch_commands(fetch_call.driver, sram, meta))
            asked == { before[k] : k \in 1..Len(before) }
        IN  /\ { DaqCmd("a", 0), DaqCmd("T", 0), DaqCmd("N", 0), DaqCmd("b", 0),
                 DaqCmd("r", 1), DaqCmd("r", 2), DaqCmd("r", 3) } \subseteq asked
            /\ meta = fetch_SRAM_data(fetch_call.driver, fetch_call.gateway, sram,
                                      fetch_call.n_select, fetch_call.n_pretrigger)
            /\ meta.kind = "return" =>
                  /\ meta.byte_addr_of_oldest_data = sram.byte_addr_of_oldest_data
                  /\ meta.total_bytes = sram.total_bytes
                  /\ meta.total_pages = sram.total_pages
                  /\ meta.bytes_per_sample_set = sram.bytes_per_sample_set
                  /\ meta.nchan = sram.nchan
                  /\ meta.nsamples_after_trigger = sram.NSAMPLES
                  /\ meta.trigger_mode
                       = trigger_modes_int_to_sym(fetch_call.driver, sram.TRIG_MODE)

\* a fetch that read pages from a recording whose layout is not the one
\* the device started with
C27_Witness ==
    /\ FetchedByDaqMcu
    /\ Len(meta.page_addrs) > 0
    /\ sram.total_bytes = 2 * page_size /\ sram.bytes_per_sample_set = 32
    /\ sram.TRIG_MODE # 0 /\ sram.byte_addr_of_oldest_data # 0
    /\ meta.total_bytes = 2 * page_size /\ meta.bytes_per_sample_set = 32

\* C28: after its page reads fetch_SRAM_data of every variant returns a
\* dictionary with dt_us, late_flag, analog_gain and ref_voltage as the
\* device reports them, unpack_to_samples passes the four on unchanged, and
\* the Pico2 driver behind PIC18F26Q71_COMMS_3_MCU returns ref_voltage = the
\* gateway's analog millivolts / 1000.
C28_AccompanyingMetadata ==
    (meta.kind # "none" /\ meta.exc # "IndexError") =>
        /\ meta.kind = "return"
        /\ meta.dt_us = get_sample_period_us(fetch_call.driver, sram)
        /\ meta.late_flag = (sram.settings.late = 1)
        /\ meta.analog_gain = get_analog_gain(fetch_call.driver, sram)
        /\ meta.ref_voltage = get_analog_ref_voltage(fetch_call.driver, sram)
        /\ fetch_call.driver = "pico2" => meta.ref_voltage = sram.settings.millivolts
        /\ unpacked.kind = "return" =>
              /\ unpacked.dt_us = meta.dt_us
              /\ unpacked.late_flag = meta.late_flag
              /\ unpacked.analog_gain = meta.analog_gain
              /\ unpacked.ref_voltage = meta.ref_voltage

-----------------------------------------------------------------------------
(* The recording scripts src/boards/avr_edaq_1/test_7_transient_record.py   *)
(* (from line 34) and src/boards/pico2_edaq_bu79100g/test_5_transient_      *)
(* recording.py (from line 40): arm the trigger, start sampling, wait by     *)
(* polling the status of the node, fetch. A line is a statement of one of    *)
(* the kinds call, poll, sleep, quit_if_event, fetch; the node moves on its  *)
(* own between the statements.                                               *)

MaxPolls == 3

Scripts == {"test_7", "test_5"}

\* the gateway class a script is written for
GatewayOf(s) ==
    IF s = "test_7" THEN "PIC18F16Q41_COMMS_1_MCU" ELSE "PIC18F26Q71_COMMS_3_MCU"

\* the first line of a script that is modelled
FirstLine(s) == IF s = "test_7" THEN 34 ELSE 40

Call_(method, next) ==
    [kind |-> "call", method |-> method, bit |-> "", next |-> next, other |-> 0]

Poll_(bit, next, other) ==
    [kind |-> "poll", method |-> "", bit |-> bit, next |-> next, other |-> other]

Sleep_(next) == [kind |-> "sleep", method |-> "", bit |-> "", next |-> next, other |-> 0]

\* the statement at a line of a script: next is the line that follows,
\* other the line a poll goes to when the awaited bit is not reported
Stmt(s, line) ==
    IF s = "test_7" THEN
        CASE line = 34 -> Call_("release_event_line", 35)
          [] line = 35 -> Call_("disable_external_trigger", 36)
          [] line = 36 -> Call_("command_COMMS_MCU", 38)
          [] line = 38 -> Call_("enable_external_trigger", 39)
          [] line = 39 -> Call_("start_sampling", 40)
          [] line = 40 -> Poll_("event_passed", 43, 42)
          [] line = 42 -> Sleep_(40)
          [] line = 43 -> Call_("command_COMMS_MCU", 44)
          [] line = 44 -> Call_("disable_external_trigger", 46)
          [] line = 46 -> Poll_("ready", 52, 49)
          [] line = 49 -> Sleep_(46)
          [] line = 52 -> Call_("did_not_keep_up_during_sampling", 55)
          [] OTHER -> [kind |-> "fetch", method |-> "", bit |-> "", next |-> 0, other |-> 0]
    ELSE
        CASE line = 40 -> Call_("enable_internal_trigger", 41)
          [] line = 41 -> [kind |-> "quit_if_event", method |-> "", bit |-> "event_passed",
                           next |-> 45, other |-> 0]
          [] line = 45 -> Call_("test_DAQ_MCU_is_ready", 46)
          [] line = 46 -> Call_("start_sampling", 47)
          [] line = 47 -> Poll_("ready", 52, 50)
          [] line = 50 -> Sleep_(47)
          [] line = 52 -> Call_("test_event_has_passed", 53)
          [] line = 53 -> Call_("get_nchannels", 59)
          [] OTHER -> [kind |-> "fetch", method |-> "", bit |-> "", next |-> 0, other |-> 0]

\* methods a script calls that its gateway class does not have:
\* PIC18F16Q41_COMMS_1_MCU has no command_COMMS_MCU, and its
\* disable_external_trigger calls self.command_PIC, which it has not either
MissingMethods(gateway) ==
    IF gateway = "PIC18F16Q41_COMMS_1_MCU"
    THEN {"disable_external_trigger", "command_COMMS_MCU"}
    ELSE {}

\* the script is at a statement
Running == script # "" /\ script_out = ""

\* what a command does to the node
Commanded(d, method) ==
    IF method \in {"enable_external_trigger", "enable_internal_trigger"}
    THEN [d EXCEPT !.armed = TRUE]
    ELSE IF method = "start_sampling"
    THEN [d EXCEPT !.sampling = TRUE, !.ready = FALSE]
    ELSE d

\* python3 test_N.py: main() reaches the first modelled line
RunScript ==
    /\ script = ""
    /\ \E s \in Scripts :
         /\ script' = s
         /\ pc' = FirstLine(s)
    /\ daq' = QuietNode /\ seen' = NoStatus /\ polls' = 0 /\ script_out' = ""
    /\ UNCHANGED <<trig_call, trig_out, FramingVars, RegFileVars, FetchVars, BusVars, OtherVars>>

\* a statement that calls a method of the gateway or of the driver: it
\* raises AttributeError when the method is missing, RuntimeError when the
\* node does not answer, and goes to the next line otherwise
CallStmt ==
    /\ Running /\ Stmt(script, pc).kind = "call"
    /\ LET st == Stmt(script, pc)
       IN  IF st.method \in MissingMethods(GatewayOf(script))
           THEN /\ script_out' = "AttributeError"
                /\ UNCHANGED <<pc, daq>>
           ELSE IF ~daq.answers
           THEN /\ script_out' = "RuntimeError"
                /\ UNCHANGED <<pc, daq>>
           ELSE /\ pc' = st.next
                /\ daq' = Commanded(daq, st.method)
                /\ UNCHANGED script_out
    /\ UNCHANGED <<script, seen, polls, trig_call, trig_out, FramingVars, RegFileVars, FetchVars, BusVars, OtherVars>>

\* one status query of a wait loop: 'Q' is sent, and the loop is left when
\* the reply reports the awaited bit; no reply within the timeout raises
\* RuntimeError (Invalid RS485 response)
PollStmt ==
    /\ Running /\ Stmt(script, pc).kind = "poll"
    /\ LET st == Stmt(script, pc)
       IN  IF ~daq.answers
           THEN /\ script_out' = "RuntimeError"
                /\ UNCHANGED <<pc, seen>>
           ELSE /\ seen' = [event_passed |-> daq.event_passed, ready |-> daq.ready]
                /\ pc' = IF seen'[st.bit] THEN st.next ELSE st.other
                /\ UNCHANGED script_out
    /\ polls' = IF polls < MaxPolls THEN polls + 1 ELSE polls
    /\ UNCHANGED <<script, daq, trig_call, trig_out, FramingVars, RegFileVars, FetchVars, BusVars, OtherVars>>

\* print('Waiting...'); time.sleep(...)
SleepStmt ==
    /\ Running /\ Stmt(script, pc).kind = "sleep"
    /\ pc' = Stmt(script, pc).next
    /\ UNCHANGED <<script, daq, seen, polls, script_out, trig_call, trig_out,
                   FramingVars, RegFileVars, FetchVars, BusVars, OtherVars>>

\* if node1.test_event_has_passed(): ... return
QuitIfEventStmt ==
    /\ Running /\ Stmt(script, pc).kind = "quit_if_event"
    /\ IF ~daq.answers
       THEN /\ script_out' = "RuntimeError"
            /\ UNCHANGED <<pc, seen>>
       ELSE /\ seen' = [event_passed |-> daq.event_passed, ready |-> daq.ready]
            /\ IF daq.event_passed
               THEN script_out' = "quit" /\ UNCHANGED pc
               ELSE pc' = Stmt(script, pc).next /\ UNCHANGED script_out
    /\ UNCHANGED <<script, daq, polls, trig_call, trig_out, FramingVars, RegFileVars, FetchVars, BusVars, OtherVars>>

\* my_data = daq_mcu.fetch_SRAM_data(...) is started
FetchStmt ==
    /\ Running /\ Stmt(script, pc).kind = "fetch"
    /\ script_out' = "fetch"
    /\ UNCHANGED <<script, pc, daq, seen, polls, trig_call, trig_out,
                   FramingVars, RegFileVars, FetchVars, BusVars, OtherVars>>

\* the script has ended; the next one can be run
ScriptEnds ==
    /\ script # "" /\ script_out # ""
    /\ script' = "" /\ pc' = 0 /\ daq' = QuietNode /\ seen' = NoStatus
    /\ polls' = 0 /\ script_out' = ""
    /\ UNCHANGED <<trig_call, trig_out, FramingVars, RegFileVars, FetchVars, BusVars, OtherVars>>

\* the comparator fires and EVENT# goes low
Trigger ==
    /\ Running /\ daq.armed /\ ~daq.event_passed
    /\ daq' = [daq EXCEPT !.event_passed = TRUE]
    /\ UNCHANGED <<script, pc, seen, polls, script_out, trig_call, trig_out,
                   FramingVars, RegFileVars, FetchVars, BusVars, OtherVars>>

\* the DAQ MCU has stored its post-trigger samples and is ready again
SamplingDone ==
    /\ Running /\ daq.sampling /\ daq.event_passed
    /\ daq' = [daq EXCEPT !.sampling = FALSE, !.ready = TRUE]
    /\ UNCHANGED <<script, pc, seen, polls, script_out, trig_call, trig_out,
                   FramingVars, RegFileVars, FetchVars, BusVars, OtherVars>>

\* the node stops answering (power, cable)
NodeGoesSilent ==
    /\ Running /\ daq.answers
    /\ daq' = [daq EXCEPT !.answers = FALSE]
    /\ UNCHANGED <<script, pc, seen, polls, script_out, trig_call, trig_out,
                   FramingVars, RegFileVars, FetchVars, BusVars, OtherVars>>

PollNext ==
    \/ RunScript
    \/ CallStmt
    \/ PollStmt
    \/ SleepStmt
    \/ QuitIfEventStmt
    \/ FetchStmt
    \/ ScriptEnds
    \/ Trigger
    \/ SamplingDone
    \/ NodeGoesSilent

PollSpec == Init /\ [][PollNext]_vars

-----------------------------------------------------------------------------
(* The two-board calibration script src/v1/wkrj-calibration.py, main, from  *)
(* line 64: nodes[0] and nodes[1] share the EVENT# line, nodes[1] has the    *)
(* trigger armed (line 62); both DAQ MCUs are started, the script waits for *)
(* the event and for the DAQ MCUs, then fetches from both. wkrj.pc is the   *)
(* line that runs next, wkrj.j the index of a for loop over the two nodes;  *)
(* a print and the sleep that follows it are one step.                      *)

WkrjNodes == {0, 1}

\* the node a status query of the script is addressed to, by its line:
\* nodes[0] at line 77, nodes[1] at lines 66, 72, 76 and 81
polled_node(line) == IF line = 77 THEN 0 ELSE 1

\* the script is at a statement
WkrjRunning == wkrj.pc # 0 /\ wkrj.out = ""

\* the reply to 'Q' addressed to node n has been read: it shows whether the
\* DAQ MCU of that node is ready
Observed(n) == [wkrj.observed EXCEPT ![n] = @ \/ wkrj.nodes[n].ready]

\* a statement that sends a command to node n: no reply within the timeout
\* raises RuntimeError (Invalid RS485 response), and the script ends there
WkrjCommand(n, after) ==
    IF n \in wkrj.silent THEN [wkrj EXCEPT !.out = "RuntimeError"] ELSE after

\* python3 wkrj-calibration.py: main() reaches line 64
WkrjRun ==
    /\ wkrj = WkrjIdle
    /\ wkrj' = [WkrjIdle EXCEPT !.pc = 64]
    /\ UNCHANGED <<ads, FramingVars, RegFileVars, FetchVars, ScriptVars, BusVars>>

\* for daq_mcu in daq_mcus: daq_mcu.start_AVR_sampling()
WkrjStartSampling ==
    /\ WkrjRunning /\ wkrj.pc = 64
    /\ wkrj' = WkrjCommand(wkrj.j,
                    [wkrj EXCEPT !.nodes[wkrj.j] = [sampling |-> TRUE, ready |-> FALSE],
                                 !.j = IF wkrj.j = 0 THEN 1 ELSE 0,
                                 !.pc = IF wkrj.j = 0 THEN 64 ELSE 66])
    /\ UNCHANGED <<ads, FramingVars, RegFileVars, FetchVars, ScriptVars, BusVars>>

\* while not nodes[1].test_event_has_passed(): print(...); time.sleep(1.0)
WkrjWaitEvent ==
    /\ WkrjRunning /\ wkrj.pc \in {66, 67}
    /\ wkrj' = IF wkrj.pc = 67 THEN [wkrj EXCEPT !.pc = 66]
               ELSE WkrjCommand(polled_node(66),
                        [wkrj EXCEPT !.observed = Observed(polled_node(66)),
                                     !.pc = IF wkrj.event_passed THEN 69 ELSE 67])
    /\ UNCHANGED <<ads, FramingVars, RegFileVars, FetchVars, ScriptVars, BusVars>>

\* for node in nodes: print("After trigger, ...", node.command_PIC('Q'))
WkrjQueryAll ==
    /\ WkrjRunning /\ wkrj.pc = 69
    /\ wkrj' = WkrjCommand(wkrj.j,
                    [wkrj EXCEPT !.observed = Observed(wkrj.j),
                                 !.j = IF wkrj.j = 0 THEN 1 ELSE 0,
                                 !.pc = IF wkrj.j = 0 THEN 69 ELSE 72])
    /\ UNCHANGED <<ads, FramingVars, RegFileVars, FetchVars, ScriptVars, BusVars>>

\* ready = nodes[...].test_DAQ_MCU_is_ready(), at lines 72 and 77 and, after
\* the print and the sleep, at lines 76 and 81
WkrjPollReady ==
    /\ WkrjRunning /\ wkrj.pc \in {72, 76, 77, 81}
    /\ LET n == polled_node(wkrj.pc)
       IN  wkrj' = WkrjCommand(n,
                       [wkrj EXCEPT !.ready = wkrj.nodes[n].ready,
                                    !.observed = Observed(n),
                                    !.pc = IF wkrj.pc \in {72, 76} THEN 73 ELSE 78])
    /\ UNCHANGED <<ads, FramingVars, RegFileVars, FetchVars, ScriptVars, BusVars>>

\* while not ready: at line 73 and at line 78
WkrjWhileNotReady ==
    /\ WkrjRunning /\ wkrj.pc \in {73, 78}
    /\ wkrj' = [wkrj EXCEPT !.pc = IF wkrj.pc = 73
                                   THEN (IF wkrj.ready THEN 77 ELSE 76)
                                   ELSE (IF wkrj.ready THEN 83 ELSE 81)]
    /\ UNCHANGED <<ads, FramingVars, RegFileVars, FetchVars, ScriptVars, BusVars>>

\* for daq_mcu in daq_mcus: print(... AVR_did_not_keep_up_during_sampling())
WkrjLateFlags ==
    /\ WkrjRunning /\ wkrj.pc = 83
    /\ wkrj' = WkrjCommand(wkrj.j,
                    [wkrj EXCEPT !.j = IF wkrj.j = 0 THEN 1 ELSE 0,
                                 !.pc = IF wkrj.j = 0 THEN 83 ELSE 87])
    /\ UNCHANGED <<ads, FramingVars, RegFileVars, FetchVars, ScriptVars, BusVars>>

\* my_data_sets = [daq_mcu.fetch_SRAM_data(...) for daq_mcu in daq_mcus]
\* is started
WkrjFetch ==
    /\ WkrjRunning /\ wkrj.pc = 87
    /\ wkrj' = [wkrj EXCEPT !.out = "fetch"]
    /\ UNCHANGED <<ads, FramingVars, RegFileVars, FetchVars, ScriptVars, BusVars>>

\* the script has ended; it can be run again
WkrjEnds ==
    /\ wkrj.out # ""
    /\ wkrj' = WkrjIdle
    /\ UNCHANGED <<ads, FramingVars, RegFileVars, FetchVars, ScriptVars, BusVars>>

\* the comparator of nodes[1] fires and EVENT# goes low for both nodes
WkrjTrigger ==
    /\ WkrjRunning /\ ~wkrj.event_passed
    /\ wkrj' = [wkrj EXCEPT !.event_passed = TRUE]
    /\ UNCHANGED <<ads, FramingVars, RegFileVars, FetchVars, ScriptVars, BusVars>>

\* the DAQ MCU of node n has stored its post-trigger samples and is ready
WkrjSamplingDone(n) ==
    /\ WkrjRunning /\ wkrj.nodes[n].sampling /\ wkrj.event_passed
    /\ wkrj' = [wkrj EXCEPT !.nodes[n] = [sampling |-> FALSE, ready |-> TRUE]]
    /\ UNCHANGED <<ads, FramingVars, RegFileVars, FetchVars, ScriptVars, BusVars>>

\* node n stops answering (power, cable)
WkrjNodeGoesSilent(n) ==
    /\ WkrjRunning /\ n \notin wkrj.silent
    /\ wkrj' = [wkrj EXCEPT !.silent = @ \cup {n}]
    /\ UNCHANGED <<ads, FramingVars, RegFileVars, FetchVars, ScriptVars, BusVars>>

WkrjNext ==
    \/ WkrjRun
    \/ WkrjStartSampling
    \/ WkrjWaitEvent
    \/ WkrjQueryAll
    \/ WkrjPollReady
    \/ WkrjWhileNotReady
    \/ WkrjLateFlags
    \/ WkrjFetch
    \/ WkrjEnds
    \/ WkrjTrigger
    \/ \E n \in WkrjNodes : WkrjSamplingDone(n)
    \/ \E n \in WkrjNodes : WkrjNodeGoesSilent(n)

WkrjSpec == Init /\ [][WkrjNext]_vars

-----------------------------------------------------------------------------
(* fetch_SRAM_data of src/daq_mcu/pico2_ads131m04.py. The DAQ MCU is what   *)
(* it reports: register 2 (samples after the trigger), register 3 (trigger  *)
(* mode), the replies to 'T' (index of the trigger sample) and 'a', and     *)
(* the sample sets it stores, which 'B i' reads by their index i counted    *)
(* from the oldest one: 0 .. nstored-1. A recording ends with the last      *)
(* sample after the trigger, so nstored = trigger_index + num_samples.      *)

MaxAdsSamples == 2
MaxTriggerIndex == 3
MaxPretrigger == 3

\* def fetch_SRAM_data(self, n_pretrigger=128)
DefaultPretrigger == 128

\* the recordings an ADS131M04 DAQ MCU can hold
AdsRecordings ==
    { [mode |-> mode, num_samples |-> n, trigger_index |-> t,
       oldest_index |-> a, nstored |-> t + n] :
        mode \in 0..2, n \in 0..MaxAdsSamples, t \in 0..MaxTriggerIndex, a \in 0..1 }

AdsDevices == { d \in AdsRecordings : d.mode = 0 => d.trigger_index = 0 }

\* what a caller passes as n_pretrigger; <<>> is a call without it
AdsRequests == {<<>>} \cup { <<n>> : n \in 0..MaxPretrigger }

\* get_trigger_mode: the text of register 3 as a word
get_trigger_mode(val) ==
    CASE val = 0 -> "immediate"
      [] val = 1 -> "internal"
      [] val = 2 -> "external"
      [] OTHER -> "error"

\* max(a, b) of Python
max(a, b) == IF a >= b THEN a ELSE b

\* fetch_SRAM_data(n_pretrigger): the dict it returns; 'data' is given by
\* the indices i of the 'B i' commands in order, each standing for the 16
\* bytes of the sample set the device stores at that index
ADS131M04_fetch_SRAM_data(dev, n_pretrigger_arg) ==
    LET n_pretrigger_in == IF n_pretrigger_arg = None THEN DefaultPretrigger
                           ELSE n_pretrigger_arg[1]
        nsamples_after_trigger == dev.num_samples
        index_of_oldest_data == dev.oldest_index
        first_sample_index == dev.trigger_index
        trigger_mode_str == get_trigger_mode(dev.mode)
        windowed == trigger_mode_str \in {"internal", "external"}
        start_index == IF windowed THEN max(0, first_sample_index - n_pretrigger_in) ELSE 0
        total_samples == IF windowed THEN n_pretrigger_in + nsamples_after_trigger
                         ELSE nsamples_after_trigger
        n_pretrigger == IF windowed THEN n_pretrigger_in ELSE 0
    IN  [kind |-> "return",
         index_of_oldest_data |-> index_of_oldest_data,
         nsamples_after_trigger |-> nsamples_after_trigger,
         nsamples_before_trigger |-> n_pretrigger,
         first_sample_index |-> first_sample_index,
         trigger_mode |-> trigger_mode_str,
         nchan |-> 4,
         data |-> [i \in 1..total_samples |-> start_index + (i - 1)] \o <<>>]

\* the indices in 'data' that the device does not store
InvalidIndices(dev, data) == { k \in 1..Len(data) : data[k] \notin 0..(dev.nstored - 1) }

\* the DAQ MCU refuses the first 'B i' whose index it does not store:
\* command_DAQ_MCU raises RuntimeError, and no dict is returned
RefusedAt(dev, res) ==
    LET bad == InvalidIndices(dev, res.data)
        first == CHOOSE k \in bad : \A j \in bad : k <= j
    IN  [res EXCEPT !.kind = "raise", !.data = SubSeq(res.data, 1, first)]

\* the DAQ MCU is configured and makes a recording
AdsRecord(dev) ==
    /\ ads.result.kind = "none"
    /\ ads' = [NoAds EXCEPT !.dev = dev]
    /\ UNCHANGED <<wkrj, FramingVars, RegFileVars, FetchVars, ScriptVars, BusVars>>

\* result = daq.fetch_SRAM_data(n_pretrigger=...); what the firmware does
\* with an index it does not store is not in this repository: it answers
\* with some sample set, or it refuses
AdsFetch ==
    /\ ads.result.kind = "none"
    /\ \E n_pretrigger \in AdsRequests :
         LET res == ADS131M04_fetch_SRAM_data(ads.dev, n_pretrigger)
         IN  \E refuse \in BOOLEAN :
                /\ refuse => InvalidIndices(ads.dev, res.data) # {}
                /\ ads' = [ads EXCEPT !.n_pretrigger = n_pretrigger,
                                      !.result = IF refuse THEN RefusedAt(ads.dev, res)
                                                 ELSE res]
    /\ UNCHANGED <<wkrj, FramingVars, RegFileVars, FetchVars, ScriptVars, BusVars>>

\* the caller is done with the result
AdsDiscard ==
    /\ ads.result.kind # "none"
    /\ ads' = [NoAds EXCEPT !.dev = ads.dev]
    /\ UNCHANGED <<wkrj, FramingVars, RegFileVars, FetchVars, ScriptVars, BusVars>>

AdsNext ==
    \/ \E dev \in AdsDevices : AdsRecord(dev)
    \/ AdsFetch
    \/ AdsDiscard

AdsSpec == Init /\ [][AdsNext]_vars

-----------------------------------------------------------------------------
(* Arming a comparator trigger: enable_external_trigger and                 *)
(* enable_internal_trigger of src/comms_mcu/pic18f26q71_comms_3_mcu.py and  *)
(* enable_external_trigger of src/comms_mcu/pic18f16q41_comms_1_mcu.py, as  *)
(* functions of the arguments and of the line the node answers with.        *)

\* the calls there are: a gateway class and a method of it
TrigOps ==
    { <<"PIC18F26Q71_COMMS_3_MCU", "enable_external_trigger">>,
      <<"PIC18F26Q71_COMMS_3_MCU", "enable_internal_trigger">>,
      <<"PIC18F16Q41_COMMS_1_MCU", "enable_external_trigger">> }

\* level arguments: below, at and above the ends of 0..255, and one inside
Levels == {-1, 0, 64, 255, 256}

\* a str slope argument
SlopeName(t) == [text |-> t, num |-> 0]

\* an int slope argument
SlopeInt(n) == [text |-> "", num |-> n]

\* slope arguments: the keys of options, and some that are not
Slopes ==
    { SlopeName(t) : t \in {"positive", "pos", "1", "negative", "neg", "0", "rising", "Pos"} }
        \cup { SlopeInt(n) : n \in {0, 1, 2} }

\* the calls that disarm: a gateway class and its method
DisarmOps ==
    { <<"PIC18F16Q41_COMMS_1_MCU", "disable_external_trigger">>,
      <<"PIC18F26Q71_COMMS_3_MCU", "disable_hardware_trigger">>,
      <<"PIC18F16Q41_JM_ADS131M04_COMMS", "disable_external_trigger">>,
      <<"EDAQSNode", "disable_external_trigger">> }

\* the command letter of a method
TrigLetter(op) ==
    CASE op = "enable_external_trigger" -> "e"
      [] op = "enable_internal_trigger" -> "i"
      [] op = "assert_event_line_low" -> "t"
      [] op = "release_event_line" -> "z"
      [] op = "reset_DAQ_MCU" -> "R"
      [] op = "flush_rx2_buffer" -> "F"
      [] OTHER -> "d"

\* operations of PIC18F26Q71_COMMS_3_MCU that send one letter and drop the
\* text that command_COMMS_MCU returns
QuietOps == {"assert_event_line_low", "release_event_line", "reset_DAQ_MCU", "flush_rx2_buffer"}

\* lines the node may answer with: nothing (timeout), the echo alone, the
\* echo and an error report, other uses of 'error', a frame without
\* terminator, the echo of another command
TrigLines(op) ==
    LET c == TrigLetter(op)
    IN  { <<>>,
          <<"/", "0", c, "#", "\n">>,
          <<"/", "0", c, " ", "e", "r", "r", "o", "r", "#", "\n">>,
          <<"/", "0", c, " ", "E", "r", "r", "o", "r", "#", "\n">>,
          <<"/", "0", "e", "r", "r", "o", "r", "#", "\n">>,
          <<"/", "0", c, " ", "e", "r", "#", "r", "o", "r", "#", "\n">>,
          <<"/", "0", c, "\n">>,
          <<"/", "0", "w", "#", "\n">>,
          <<"e", "r", "r", "o", "r", "\n">> }

\* str(n) of an integer that is not negative
RECURSIVE ToDecimal(_)
ToDecimal(n) ==
    IF n < 10 THEN <<Chr(48 + n)>>
    ELSE ToDecimal(n \div 10) \o <<Chr(48 + (n % 10))>>

\* the clamp without its upper end (faulty variant)
clamp_level_LowerOnly(level) == IF level < 0 THEN 0 ELSE level

\* level = int(level); if level < 0: level = 0; if level > 255: level = 255
clamp_level(level) == IF level < 0 THEN 0 ELSE IF level > 255 THEN 255 ELSE level

\* options[slope]: <<1>> or <<0>>, None for a key that options has not
options(slope) ==
    IF slope.text \in {"positive", "pos", "1"} THEN <<1>>
    ELSE IF slope.text \in {"negative", "neg", "0"} THEN <<0>>
    ELSE IF slope.text = "" /\ slope.num \in {0, 1} THEN <<slope.num>>
    ELSE None

\* enable_external_trigger(level, slope) / enable_internal_trigger(level,
\* slope), given the bytes readline() returns once the command is sent
enable_trigger(op, level, slope, line) ==
    IF options(slope) = None
    THEN TrigOut("raise", "KeyError", "", <<>>, [val |-> <<>>, out |-> <<>>])
    ELSE LET cmd == <<TrigLetter(op), " ">> \o ToDecimal(clamp_level(level))
                        \o <<" ">> \o ToDecimal(options(slope)[1])
             r == command(cmd, line)
         IN  IF r.kind = "raise"
             THEN TrigOut("raise", r.exc, r.msg, cmd, r)
             ELSE IF Find(r.val, <<"e", "r", "r", "o", "r">>) >= 0
             THEN TrigOut("raise", "RuntimeError", "Could not set trigger", cmd, r)
             ELSE TrigOut("return", "", "", cmd, r)

\* disable_external_trigger() / disable_hardware_trigger(): 'd' is sent
\* with the command method of the class and the reply text is dropped;
\* PIC18F16Q41_COMMS_1_MCU names self.command_PIC, which it has not
disable_trigger(gateway, line) ==
    IF gateway = "PIC18F16Q41_COMMS_1_MCU"
    THEN TrigOut("raise", "AttributeError", "command_PIC", <<>>, [val |-> <<>>, out |-> <<>>])
    ELSE LET r == command(<<"d">>, line)
         IN  IF r.kind = "raise"
             THEN TrigOut("raise", r.exc, r.msg, <<"d">>, r)
             ELSE TrigOut("return", "", "", <<"d">>, r)

\* faulty variant of quiet_op: an 'error' payload raises, as it does in
\* enable_external_trigger
quiet_op_Checked(op, line) ==
    LET r == command(<<TrigLetter(op)>>, line)
    IN  IF r.kind = "raise" THEN TrigOut("raise", r.exc, r.msg, <<TrigLetter(op)>>, r)
        ELSE IF Find(r.val, <<"e", "r", "r", "o", "r">>) >= 0
        THEN TrigOut("raise", "RuntimeError", "error", <<TrigLetter(op)>>, r)
        ELSE TrigOut("return", "", "", <<TrigLetter(op)>>, r)

\* assert_event_line_low / release_event_line / reset_DAQ_MCU /
\* flush_rx2_buffer: txt = self.command_COMMS_MCU(letter); return
quiet_op(op, line) ==
    LET r == command(<<TrigLetter(op)>>, line)
    IN  IF r.kind = "raise" THEN TrigOut("raise", r.exc, r.msg, <<TrigLetter(op)>>, r)
        ELSE TrigOut("return", "", "", <<TrigLetter(op)>>, r)

\* node1.enable_external_trigger(level, slope) or
\* node1.enable_internal_trigger(level, slope), and the answer of the node
ArmTrigger ==
    /\ trig_out.kind = "none"
    /\ \E o \in TrigOps, level \in Levels, slope \in Slopes :
         \E txt \in TrigLines(o[2]) :
            /\ trig_call' = [gateway |-> o[1], op |-> o[2], level |-> level,
                             slope |-> slope, line |-> Utf8Encode(txt)]
            /\ trig_out' = enable_trigger(o[2], level, slope, Utf8Encode(txt))
    /\ UNCHANGED <<script, pc, daq, seen, polls, script_out, FramingVars, RegFileVars, FetchVars, BusVars, OtherVars>>

\* node1.disable_external_trigger() or node1.disable_hardware_trigger(),
\* and the answer of the node
DisarmTrigger ==
    /\ trig_out.kind = "none"
    /\ \E o \in DisarmOps :
         \E txt \in TrigLines(o[2]) :
            /\ trig_call' = [gateway |-> o[1], op |-> o[2], level |-> 0,
                             slope |-> SlopeInt(0), line |-> Utf8Encode(txt)]
            /\ trig_out' = disable_trigger(o[1], Utf8Encode(txt))
    /\ UNCHANGED <<script, pc, daq, seen, polls, script_out, FramingVars, RegFileVars, FetchVars, BusVars, OtherVars>>

\* a call of an operation that drops the reply text, and the answer of
\* the node
QuietCall ==
    /\ trig_out.kind = "none"
    /\ \E op \in QuietOps :
         \E txt \in TrigLines(op) :
            /\ trig_call' = [gateway |-> "PIC18F26Q71_COMMS_3_MCU", op |-> op, level |-> 0,
                             slope |-> SlopeInt(0), line |-> Utf8Encode(txt)]
            /\ trig_out' = quiet_op(op, Utf8Encode(txt))
    /\ UNCHANGED <<script, pc, daq, seen, polls, script_out, FramingVars, RegFileVars,
                   FetchVars, BusVars, OtherVars>>

\* the call has ended; the caller may make the next one
TrigReturn ==
    /\ trig_out.kind # "none"
    /\ trig_call' = NoTrigCall
    /\ trig_out' = NoTrigOut
    /\ UNCHANGED <<script, pc, daq, seen, polls, script_out,
                   FramingVars, RegFileVars, FetchVars, BusVars, OtherVars>>

TrigNext == ArmTrigger \/ DisarmTrigger \/ QuietCall \/ TrigReturn

TrigSpec == Init /\ [][TrigNext]_vars

-----------------------------------------------------------------------------
(* What the script properties read from a state.                            *)

\* the script stopped inside a wait loop, at its status query
StoppedInWait == script_out # "" /\ Stmt(script, pc).kind = "poll"

\* C29: the recording scripts wait for the trigger and for the end of
\* sampling in loops of one status query and a sleep: fetch_SRAM_data is
\* started only after a status query reported ready, a wait loop is left
\* only when its awaited bit was reported, and nothing else stops a script
\* on its way to the waits and the fetch.
C29_PollingWaits ==
    /\ script_out = "fetch" => seen.ready
    /\ ~StoppedInWait
    /\ script_out # "AttributeError"

\* a call that arms a trigger has ended
Armed ==
    /\ trig_out.kind # "none"
    /\ trig_call.op \in {"enable_external_trigger", "enable_internal_trigger"}

\* the line the node answered with, as text
TrigReply == Strip(Utf8Decode(trig_call.line))

\* the command that was sent is 'e' or 'i', a level of 0..255 that is the
\* requested one or the nearer end of the range, and a slope of 0 or 1; a
\* slope that is no key of options raises KeyError and nothing is sent
ArmCommand ==
    IF options(trig_call.slope) = None
    THEN trig_out.kind = "raise" /\ trig_out.exc = "KeyError" /\ trig_out.cmd = <<>>
    ELSE LET level == IF trig_call.level < 0 THEN 0
                      ELSE IF trig_call.level > 255 THEN 255 ELSE trig_call.level
             slope == options(trig_call.slope)[1]
         IN  /\ level \in 0..255 /\ slope \in {0, 1}
             /\ trig_out.cmd = <<TrigLetter(trig_call.op), " ">> \o ToDecimal(level)
                                   \o <<" ">> \o ToDecimal(slope)

(* C30 as stated: every 'e level slope' / 'i level slope' carries a level  *)
(* in 0..255 (requests outside are clamped) and a slope of 0 or 1, an      *)
(* unrecognised slope faults before any frame, and the call raises         *)
(* RuntimeError iff the reply of the gateway contains 'error'.             *)
C30_ArmTriggerAsStated ==
    Armed =>
        /\ ArmCommand
        /\ (trig_out.kind = "raise" /\ trig_out.exc = "RuntimeError")
              <=> (trig_out.cmd # <<>> /\ Find(TrigReply, <<"e", "r", "r", "o", "r">>) >= 0)

\* the reply is a frame, '/0' first and a '#' in it, whose text starts
\* with the command letter
EchoedFrame ==
    /\ StartsWith(TrigReply, <<"/", "0">>)
    /\ Find(TrigReply, <<"#">>) >= 0
    /\ StartsWith(Strip(ReSub(<<"#">>, Strip(ReSub(<<"/", "0">>, TrigReply)))),
                  <<TrigLetter(trig_call.op)>>)

\* the text of the frame after the echoed command letter
AfterEcho == Tail(Strip(ReSub(<<"#">>, Strip(ReSub(<<"/", "0">>, TrigReply)))))

(* C30 amended: the command is as stated, an unrecognised slope raises     *)
(* KeyError before any frame, and once the command is sent the call raises *)
(* RuntimeError iff the reply is not a frame that echoes the command       *)
(* letter (no reply within the timeout included) or the text after the     *)
(* echoed letter contains 'error'.                                         *)
C30_ArmTrigger ==
    Armed =>
        /\ ArmCommand
        /\ (trig_out.kind = "raise" /\ trig_out.exc = "RuntimeError")
              <=> (/\ trig_out.cmd # <<>>
                   /\ ~EchoedFrame \/ Find(AfterEcho, <<"e", "r", "r", "o", "r">>) >= 0)
        /\ trig_out.kind = "raise" => trig_out.exc \in {"KeyError", "RuntimeError"}

\* a level above the range was clamped, the command went out, and the
\* node did not answer: RuntimeError with no 'error' in any reply
C30_Witness ==
    /\ Armed /\ trig_call.level = 256 /\ trig_call.slope = SlopeName("neg")
    /\ trig_call.op = "enable_internal_trigger"
    /\ trig_out.cmd = <<"i", " ", "2", "5", "5", " ", "0">>
    /\ trig_call.line = <<>>
    /\ trig_out.kind = "raise" /\ trig_out.exc = "RuntimeError"

\* a call that disarms the trigger has ended
Disarmed ==
    /\ trig_out.kind # "none"
    /\ trig_call.op \in {"disable_external_trigger", "disable_hardware_trigger"}

(* C31: in every gateway class the disarm operation sends the one command  *)
(* 'd', and it returns normally when the reply is a frame that echoes 'd'. *)
C31_Disarm ==
    Disarmed =>
        /\ trig_out.cmd = <<"d">>
        /\ EchoedFrame => trig_out.kind = "return"

\* the pages that hold the bytes of the sample set at offset addr
PagesOf(addr) ==
    { page_size * ((addr + k) \div page_size) : k \in 0..(meta.bytes_per_sample_set - 1) }

\* the pages fetch_SRAM_data read from the device
PagesRead == { meta.page_addrs[i] : i \in 1..Len(meta.page_addrs) }

\* unpack_to_samples has returned the samples of a dict that a driver of
\* src/daq_mcu fetched for a plain request
UnpackedPlain == FetchedByDaqMcu /\ PlainRequest /\ unpacked.kind = "return"

(* C35: every byte of every selected sample set lies in a page that       *)
(* fetch_SRAM_data read from the device, so that unpack_to_samples         *)
(* decodes stored values only, never bytes of the zero-initialised local   *)
(* buffer that no page was written to.                                     *)
C35_FetchCoversSelection ==
    UnpackedPlain =>
        /\ Len(unpacked.addrs) = meta.nsamples_select
        /\ \A i \in 1..Len(unpacked.addrs) : PagesOf(unpacked.addrs[i]) \subseteq PagesRead

\* the offsets of the selected sample sets in the circular buffer
SelectedOffsets ==
    { (meta.byte_addr_of_oldest_data
          + meta.bytes_per_sample_set * (meta.first_sample_index + i)) % meta.total_bytes :
        i \in 0..(meta.nsamples_select - 1) }

\* the pages that hold bytes of the selection
PagesNeeded == UNION { PagesOf(a) : a \in SelectedOffsets }

(* C36: one fetch_SRAM_data call sends at most total_pages page-read      *)
(* commands, reads no page address twice, and reads at most one page more *)
(* than the pages that hold the selected bytes.                           *)
C36_BoundedOverFetch ==
    RanByDaqMcu =>
        /\ Len(meta.page_addrs) <= meta.total_pages
        /\ Cardinality(PagesRead) = Len(meta.page_addrs)
        /\ Len(meta.page_addrs) <= Cardinality(PagesNeeded) + 1

\* the whole buffer was selected from a first sample that is not
\* page-aligned: the page count is capped at total_pages, and every page is
\* read once
C36_Witness ==
    /\ RanByDaqMcu /\ meta.kind = "return"
    /\ meta.first_sample_byte_addr % page_size # 0
    /\ meta.nsamples_select = sram.max_nsamples
    /\ meta.total_pages = MaxPages
    /\ Len(meta.page_addrs) = meta.total_pages
    /\ PagesRead = PagesNeeded

\* both retrieval paths have run on the recording, fetch_SRAM_data with
\* the default selection
BothPathsRan ==
    /\ RanByDaqMcu /\ recorded.kind = "return"
    /\ sram.NSAMPLES <= sram.max_nsamples

(* C37: unpack_to_samples(fetch_SRAM_data()) returns the same number of   *)
(* sample sets and the same values for every channel as                   *)
(* get_recorded_data(), which asks 'P i' for i = 0 .. N-1 in increasing   *)
(* order, N being NSAMPLES in IMMEDIATE mode and the maximum storable     *)
(* count otherwise.                                                       *)
C37_RetrievalPathsAgree ==
    BothPathsRan =>
        /\ recorded.N = IF sram.TRIG_MODE = 0 THEN sram.NSAMPLES ELSE sram.max_nsamples
        /\ \A i \in 1..recorded.N :
              get_recorded_data_cmds(recorded)[i] = [cmd |-> "P", arg |-> i - 1]
        /\ meta.kind = "return" /\ unpacked.kind = "return"
        /\ Len(unpacked.addrs) = recorded.N
        /\ unpacked_samples(meta, unpacked.addrs) = recorded_samples(sram, recorded)

\* the sample set the device stores at sample index i, counted from the
\* oldest one, as its nchan values
stored_sample_set(i) == get_formatted_sample(sram, i)

(* C38: in the result of unpack_to_samples, index 0 of every channel is    *)
(* the oldest selected sample, the one nsamples_select_pretrigger before   *)
(* the trigger, and, when more than nsamples_select_pretrigger samples     *)
(* were selected, the element at index nsamples_select_pretrigger is the   *)
(* trigger sample of the device, stored at sample index                    *)
(* trigger_sample_index = nsamples_before_trigger.                         *)
C38_TriggerPosition ==
    UnpackedPlain =>
        LET data == unpacked_samples(meta, unpacked.addrs)
            n_pre == meta.nsamples_select_pretrigger
        IN  /\ meta.trigger_sample_index = meta.nsamples_before_trigger
            /\ meta.nsamples_select > 0 =>
                 \A j \in 1..meta.nchan :
                    data[j][1] = stored_sample_set(meta.trigger_sample_index - n_pre)[j]
            /\ meta.nsamples_select > n_pre =>
                 \A j \in 1..meta.nchan :
                    data[j][n_pre + 1] = stored_sample_set(meta.trigger_sample_index)[j]

\* a call of an operation that drops the reply text has ended
QuietDone == trig_out.kind # "none" /\ trig_call.op \in QuietOps

\* the reply was a frame that echoes the command letter, and its text
\* after the letter holds 'error'
ErrorPayload == EchoedFrame /\ Find(AfterEcho, <<"e", "r", "r", "o", "r">>) >= 0

(* C34: when a well-framed, correctly echoed reply holds 'error' in its   *)
(* text, command does not raise: it prints a warning with the command and *)
(* the response and returns the text, 'error' still in it; the operation  *)
(* that drops this text (reset_DAQ_MCU, flush_rx2_buffer, the event line  *)
(* operations) returns normally.                                          *)
C34_ErrorPayloadSurfaced ==
    (QuietDone /\ ErrorPayload) =>
        /\ trig_out.kind = "return"
        /\ trig_out.txt = Strip(AfterEcho)
        /\ Find(trig_out.txt, <<"e", "r", "r", "o", "r">>) >= 0
        /\ trig_out.out = << "Warning: error return for command to COMMS-MCU.",
                             [label |-> "  cmd_txt: ", text |-> trig_out.cmd],
                             [label |-> "  response: ", text |-> trig_out.txt] >>

\* reset_DAQ_MCU was answered '/0R error#' and returned
C34_Witness ==
    /\ QuietDone /\ ErrorPayload /\ trig_call.op = "reset_DAQ_MCU"
    /\ trig_out.cmd = <<"R">> /\ trig_out.kind = "return"
    /\ trig_out.txt = <<"e", "r", "r", "o", "r">>

-----------------------------------------------------------------------------
(* Callers of Node.command (src/comms_mcu/rs485.py) on one serial port. Each *)
(* runs the port operations of command_ops in program order; nothing in the  *)
(* code keeps two callers apart, so their operations interleave. The node    *)
(* answers the frames in the order it received them, each after a delay that *)
(* may exceed the read timeout of the port (0.5 s).                          *)

MaxCalls == 3

BusCallers == {1, 2}

\* the commands the callers send: the status query and the version query
BusCommands == { <<"Q">>, <<"v">> }

\* what the node answers: '/0Q 1 1#' to 'Q' and a version text that names
\* the Q41 chip to 'v'
NodeReply(cmd) ==
    IF cmd = <<"Q">> THEN <<"/", "0", "Q", " ", "1", " ", "1", "#", "\n">>
    ELSE <<"/", "0", "v", " ", "Q", "4", "1", "#", "\n">>

\* faulty variant of reset_input_buffer: the pending input is kept
reset_input_buffer_Keep(buf) == buf

\* serial_port.reset_input_buffer(): the pending input is discarded
reset_input_buffer(buf) == <<>>

\* the port operation a caller is at
BusOp(p) ==
    IF callers[p].ip \in 1..Len(command_ops) THEN command_ops[callers[p].ip] ELSE ""

\* a caller enters command(cmd_txt)
BusCall(p) ==
    /\ callers[p].ip = 0
    /\ bus.ncalls < MaxCalls
    /\ \E c \in BusCommands :
         callers' = [callers EXCEPT ![p] =
                        [NoBusCall EXCEPT !.ip = 1, !.n = bus.ncalls + 1, !.cmd = c]]
    /\ bus' = [bus EXCEPT !.ncalls = @ + 1, !.users = @ \cup {p}]
    /\ UNCHANGED <<FramingVars, RegFileVars, FetchVars, ScriptVars, OtherVars>>

\* send_command: self.serial_port.reset_input_buffer()
BusResetInputBuffer(p) ==
    /\ BusOp(p) = "reset_input_buffer"
    /\ bus' = [bus EXCEPT !.inbuf = reset_input_buffer(@), !.clears = @ + 1]
    /\ callers' = [callers EXCEPT ![p].ip = @ + 1,
                                  ![p].epoch = bus.clears + 1,
                                  ![p].dropped = @ \cup { bus.inbuf[k].for : k \in 1..Len(bus.inbuf) }]
    /\ UNCHANGED <<FramingVars, RegFileVars, FetchVars, ScriptVars, OtherVars>>

\* send_command: self.serial_port.write(cmd_bytes)
BusWrite(p) ==
    /\ BusOp(p) = "write"
    /\ bus' = [bus EXCEPT !.wire = Append(@, [n |-> callers[p].n, by |-> p,
                                               cmd |-> callers[p].cmd])]
    /\ callers' = [callers EXCEPT ![p].ip = @ + 1]
    /\ UNCHANGED <<FramingVars, RegFileVars, FetchVars, ScriptVars, OtherVars>>

\* send_command: self.serial_port.flush()
BusFlush(p) ==
    /\ BusOp(p) = "flush"
    /\ callers' = [callers EXCEPT ![p].ip = @ + 1]
    /\ UNCHANGED <<bus, FramingVars, RegFileVars, FetchVars, ScriptVars, OtherVars>>

\* get_response: self.serial_port.readline() returns the oldest pending
\* line, or nothing when the timeout passes with no input; the rest of
\* command() then runs on what was read
BusReadline(p) ==
    /\ BusOp(p) = "readline"
    /\ IF bus.inbuf = <<>>
       THEN /\ callers' = [callers EXCEPT
                  ![p].ip = @ + 1,
                  ![p].out = LET r == command(callers[p].cmd, <<>>)
                             IN  [kind |-> r.kind, exc |-> r.exc, val |-> r.val]]
            /\ UNCHANGED bus
       ELSE /\ callers' = [callers EXCEPT
                  ![p].ip = @ + 1,
                  ![p].line = Head(bus.inbuf),
                  ![p].out = LET r == command(callers[p].cmd,
                                              Utf8Encode(NodeReply(Head(bus.inbuf).cmd)))
                             IN  [kind |-> r.kind, exc |-> r.exc, val |-> r.val]]
            /\ bus' = [bus EXCEPT !.inbuf = Tail(@)]
    /\ UNCHANGED <<FramingVars, RegFileVars, FetchVars, ScriptVars, OtherVars>>

\* command() has returned or raised; the caller may make its next call
BusReturn(p) ==
    /\ callers[p].ip = Len(command_ops) + 1
    /\ callers' = [callers EXCEPT ![p] = NoBusCall]
    /\ UNCHANGED <<bus, FramingVars, RegFileVars, FetchVars, ScriptVars, OtherVars>>

\* the node answers the oldest frame it has received
NodeAnswer ==
    /\ bus.wire # <<>>
    /\ bus' = [bus EXCEPT
                  !.wire = Tail(@),
                  !.inbuf = Append(@, [for |-> Head(bus.wire).n, by |-> Head(bus.wire).by,
                                       cmd |-> Head(bus.wire).cmd, epoch |-> bus.clears])]
    /\ UNCHANGED <<callers, FramingVars, RegFileVars, FetchVars, ScriptVars, OtherVars>>

BusNext ==
    \/ \E p \in BusCallers : BusCall(p)
    \/ \E p \in BusCallers : BusResetInputBuffer(p)
    \/ \E p \in BusCallers : BusWrite(p)
    \/ \E p \in BusCallers : BusFlush(p)
    \/ \E p \in BusCallers : BusReadline(p)
    \/ \E p \in BusCallers : BusReturn(p)
    \/ NodeAnswer

BusSpec == Init /\ [][BusNext]_vars

-----------------------------------------------------------------------------
(* What the properties of the shared port read from a state.                *)

\* command() of caller p has ended
BusDone(p) == callers[p].out.kind # "none"

\* readline() gave caller p the reply to a frame
GotLine(p) == BusDone(p) /\ callers[p].line.for # 0

\* that reply answers a frame another caller wrote
CrossRead(p) == GotLine(p) /\ callers[p].line.by # p

\* the discard of caller p dropped the reply to a frame of another caller
CrossDropped(p) ==
    \E q \in BusCallers \ {p} :
        /\ callers[q].n \in callers[p].dropped
        /\ callers[q].ip = Len(command_ops) /\ bus.inbuf = <<>> /\ bus.wire = <<>>

(* C32: a reply to one caller's frame is read or discarded by another     *)
(* caller only when two callers use the port (never with a single one),   *)
(* and command() returns the payload of such a reply only when it echoes  *)
(* the command character of the caller that read it.                      *)
C32_CallersRace ==
    \A p \in BusCallers :
        /\ CrossRead(p) \/ CrossDropped(p) => bus.users = BusCallers
        /\ CrossRead(p) /\ callers[p].out.kind = "return"
              => callers[p].line.cmd[1] = callers[p].cmd[1]

\* caller 1 has returned the payload of the reply to caller 2's 'Q', and
\* caller 2 has timed out waiting for it
C32_Witness ==
    /\ CrossRead(1) /\ callers[1].out.kind = "return"
    /\ callers[1].cmd = <<"Q">> /\ callers[1].line.for = callers[2].n
    /\ BusDone(2) /\ callers[2].out.exc = "RuntimeError" /\ callers[2].line.for = 0

\* one caller alone has used the port
SingleCaller == Cardinality(bus.users) = 1

(* C33 as stated: with one caller, the text command() returns is taken    *)
(* from the reply to the frame that very call sent.                       *)
C33_NoStaleReplyAsStated ==
    \A p \in BusCallers :
        (SingleCaller /\ BusDone(p) /\ callers[p].out.kind = "return")
            => callers[p].line.for = callers[p].n

(* C33 amended: with one caller, a line that command() reads arrived      *)
(* after that call cleared the input buffer, and it answers the frame of  *)
(* that call or of an earlier one; a reply that was pending when the      *)
(* buffer was cleared is never read. A late reply to an earlier frame is  *)
(* returned only when it echoes the command character of the call.        *)
C33_NoStaleReply ==
    \A p \in BusCallers :
        (SingleCaller /\ GotLine(p)) =>
            /\ callers[p].line.epoch = callers[p].epoch
            /\ callers[p].line.for <= callers[p].n
            /\ callers[p].line.for \notin callers[p].dropped
            /\ callers[p].out.kind = "return"
                  => callers[p].line.cmd[1] = callers[p].cmd[1]

\* the first 'Q' timed out, and the second 'Q' returned the late reply to
\* the first
C33_Witness ==
    /\ SingleCaller /\ BusDone(1) /\ callers[1].out.kind = "return"
    /\ callers[1].cmd = <<"Q">> /\ callers[1].n = 2 /\ callers[1].line.for = 1

\* the two-node script has started its fetch
WkrjFetching == wkrj.out = "fetch"

(* C39: in the two-board calibration script the data fetch starts only     *)
(* after the DAQ MCU of node 0 and the DAQ MCU of node 1 have each been     *)
(* observed ready by a status query addressed to that node.                *)
C39_BothNodesReady ==
    WkrjFetching => \A n \in WkrjNodes : wkrj.observed[n]

\* fetch_SRAM_data of the ADS131M04 driver has returned its dict
AdsFetched == ads.result.kind = "return"

(* C40: in an internal or external trigger mode, the data returned by      *)
(* PICO2_ADS131M04_DAQ.fetch_SRAM_data holds at position                    *)
(* nsamples_before_trigger the sample set at the trigger index of the      *)
(* device, the reported nsamples_before_trigger does not exceed the number *)
(* of sample sets stored before the trigger, and every index requested     *)
(* from the device is one it stores; in immediate mode                     *)
(* nsamples_before_trigger is 0 and nsamples_after_trigger sample sets are  *)
(* returned.                                                               *)
C40_PretriggerWindow ==
    AdsFetched =>
        LET res == ads.result
        IN  IF ads.dev.mode \in {1, 2}
            THEN /\ res.nsamples_before_trigger + 1 <= Len(res.data) =>
                        res.data[res.nsamples_before_trigger + 1] = ads.dev.trigger_index
                 /\ res.nsamples_before_trigger <= ads.dev.trigger_index
                 /\ InvalidIndices(ads.dev, res.data) = {}
            ELSE /\ res.nsamples_before_trigger = 0
                 /\ Len(res.data) = res.nsamples_after_trigger

====
